---- MODULE Spec2Model ----
(***************************************************************************)
(* Model of ContainerInstance (the resolution engine of the Depi / TypeDI  *)
(* inversion-of-control container): service records, container hierarchy,  *)
(* synchronous and asynchronous resolution, reset, remove and disposal.    *)
(*                                                                         *)
(* Synchronous methods run to completion inside one action (JavaScript is  *)
(* single threaded); they are operators that take the mutable state `s`    *)
(* and return the new state with the outcome.  Asynchronous methods are    *)
(* split at their await points; every suspended call is an entry of        *)
(* `tasks`.                                                                *)
(***************************************************************************)
EXTENDS Integers, Sequences, FiniteSets, TLC

(* ------------------------------ bounds -------------------------------- *)
\* objects the heap may hold (instances, literal values)
MaxInst == 4
\* nesting depth of get() calls the JavaScript call stack allows
MaxDepth == 6
\* asynchronous calls in flight at once
MaxTasks == 2
\* handlers one container may hold
MaxHandlers == 2
\* dispose() calls of one container pending at once
MaxDisposals == 1
\* calls of the onInit hook one instance may see
MaxHookCalls == 2

(* ----------------------------- universe ------------------------------- *)
None == "none"
\* the EMPTY_VALUE sentinel; heap references are 1, 2, ...
EMPTY_VALUE == 0
\* id of ContainerRegistry.defaultContainer
Root == "default"
\* the container objects; d2 is a second object constructed with the id
\* 'default' (createChild('default'): register() ignores the refusal of the
\* registry)
Containers == {"default", "c1", "c2", "d2"}
\* this.id of a container object
ContainerId(c) == IF c = "d2" THEN Root ELSE c
Classes == {"A", "B"}
\* generated MultiMaskToken identities, in order of creation
Tokens == <<"t1", "t2", "t3">>
Props == {"a", "b"}
\* every service identifier: the classes, a string id and the mask tokens
Ids == Classes \cup {"v"} \cup {Tokens[k] : k \in 1..Len(Tokens)}
\* prototype chain: the superclass of a class; Sub extends A
Super(cls) == IF cls = "Sub" THEN "A" ELSE None
\* whether instances of the class expose a dispose() method
HasDisposeMethod(cls) == cls \in {"A", "Lit"}

NoFactory == [kind |-> "none", cls |-> None]
FnFactory == [kind |-> "fn", cls |-> None]
ArrayFactory(cls) == [kind |-> "array", cls |-> cls]

DisposedError == "Cannot use container after it has been disposed."

VARIABLES
  containers,       \* the containers constructed so far
  parent,           \* _parent of each container
  options,          \* _options of each container
  paramTypes,       \* design:paramtypes metadata of each class
  metadataMap,      \* per container: identifier -> ServiceMetadata
  multiServiceIds,  \* per container: identifier -> {tokens, scope}
  handlers,         \* per container: the registered handlers, in order
  resolutionStack,  \* per container: identifiers under construction
  disposed,         \* per container: the disposed flag
  heap,             \* the objects constructors, factories and callers made
  ntok,             \* number of MultiMaskTokens generated
  tasks,            \* asynchronous calls suspended at an await
  last,             \* the outcome of the latest public call
  lastGot           \* per container and id: what the previous get returned

vars == <<containers, parent, options, paramTypes, metadataMap, multiServiceIds,
          handlers, resolutionStack, disposed, heap, ntok, tasks, last, lastGot>>

(* ------------------------- helpers on values -------------------------- *)
Range(q) == {q[i] : i \in 1..Len(q)}

MapPut(m, k, v) == [x \in DOMAIN m \cup {k} |-> IF x = k THEN v ELSE m[x]]
MapDel(m, k) == [x \in DOMAIN m \ {k} |-> m[x]]

\* the mutable state the synchronous methods work on
State == [mm |-> metadataMap, multi |-> multiServiceIds, stack |-> resolutionStack,
          heap |-> heap, ntok |-> ntok]

Return(s, v) == [s |-> s, ok |-> TRUE, val |-> v, err |-> "", path |-> <<>>]
Throw(s, e) == [s |-> s, ok |-> FALSE, val |-> 0, err |-> e, path |-> <<>>]
ThrowCircular(s, path) ==
  [s |-> s, ok |-> FALSE, val |-> 0, err |-> "CircularDependencyError", path |-> path]

\* a new object: new type(...), or what a factory returns
NewObject(s, cls) ==
  Return([s EXCEPT !.heap = Append(@, [cls |-> cls,
                                       props |-> [p \in Props |-> 0],
                                       disposeCalls |-> 0,
                                       destroyCalls |-> 0,
                                       initCalls |-> 0])],
         Len(s.heap) + 1)

\* a reference to a ServiceMetadata object: the one stored in a container's
\* metadataMap under id, or an object no map holds (a clone, a removed record)
StoredRef(c, id) == [stored |-> TRUE, c |-> c, id |-> id, rec |-> [id |-> id]]
DetachedRef(rec) == [stored |-> FALSE, c |-> None, id |-> rec.id, rec |-> rec]
Meta(s, ref) == IF ref.stored THEN s.mm[ref.c][ref.id] ELSE ref.rec

(* ------------------------------ guards -------------------------------- *)
\* fault: the disposed flag is not looked at
IgnoreDisposed(c) == FALSE

throwIfDisposed(c) == disposed[c]

\* fault: the resolution stack is not looked at
StackNeverIncludes(stack, id) == FALSE

\* this.resolutionStack.includes(id)
StackIncludes(stack, id) == id \in Range(stack)

\* indexOf + splice(index, 1): drop the first occurrence
RECURSIVE SpliceFirst(_, _)
SpliceFirst(stack, id) ==
  IF stack = <<>> THEN <<>>
  ELSE IF Head(stack) = id THEN Tail(stack)
  ELSE <<Head(stack)>> \o SpliceFirst(Tail(stack), id)

PopStack(s, c, id) == [s EXCEPT !.stack[c] = SpliceFirst(@, id)]

(* ----------------------------- hierarchy ------------------------------ *)
\* the parent getter: _parent, or the default container for any other
\* container that was given none
ParentOf(c) ==
  IF parent[c] # None THEN parent[c]
  ELSE IF ContainerId(c) # Root /\ c # Root THEN Root ELSE None

RECURSIVE WalkHandlers(_, _)
WalkHandlers(current, seen) ==
  IF current = None THEN <<>>
  ELSE IF ContainerId(current) \in seen THEN <<>>
  ELSE handlers[current]
         \o WalkHandlers(ParentOf(current), seen \cup {ContainerId(current)})

\* fault: the handlers of all containers are held in one shared list
EveryHandler(c) == handlers[Root] \o handlers["c1"] \o handlers["c2"]

getAllHandlers(c) == handlers[c] \o WalkHandlers(ParentOf(c), {})

\* the classes on the prototype chain of target, target first
RECURSIVE ProtoChain(_)
ProtoChain(cls) == IF cls = None THEN <<>> ELSE <<cls>> \o ProtoChain(Super(cls))

\* first handler of hs for constructor parameter index of class cls
FirstMatch(hs, cls, index) ==
  LET hit == {k \in 1..Len(hs) : hs[k].object = cls /\ ~hs[k].proto /\ hs[k].index = index}
  IN IF hit = {} THEN 0 ELSE CHOOSE k \in hit : \A j \in hit : k <= j

RECURSIVE FindOnChain(_, _, _)
FindOnChain(hs, chain, index) ==
  IF chain = <<>> THEN 0
  ELSE IF FirstMatch(hs, Head(chain), index) # 0 THEN FirstMatch(hs, Head(chain), index)
  ELSE FindOnChain(hs, Tail(chain), index)

\* position in getAllHandlers(c) of the handler found, 0 for undefined
findHandler(c, target, index) == FindOnChain(getAllHandlers(c), ProtoChain(target), index)

\* fault: a handler applies to the class it was declared on only
AppliesToDeclaringClass(h, target) == h.object = target

\* the prototype-chain test of applyPropertyHandlers
HandlerApplies(h, target) == h.object \in Range(ProtoChain(target))

(* ----------------------- synchronous resolution ----------------------- *)
\* An operator with a result parameter r is the rest of a method after the
\* call that produced r.
RECURSIVE get(_, _, _, _)
RECURSIVE set(_, _, _, _)
RECURSIVE getServiceValue(_, _, _, _)
RECURSIVE initializeParams(_, _, _, _, _)
RECURSIVE applyPropertyHandlers(_, _, _, _, _, _)

\* the identifier parameter index of target resolves: that of its handler,
\* else its design:paramtypes entry; None for a primitive type
ParamDep(c, target, index) ==
  LET k == findHandler(c, target, index)
  IN IF k # 0 THEN getAllHandlers(c)[k].dep ELSE paramTypes[target][index]

ParamValue(s, c, target, index, d) ==
  IF ParamDep(c, target, index) = None THEN Return(s, 0)
  ELSE get(s, c, ParamDep(c, target, index), d - 1)

NextParam(r, c, target, index, d) ==
  IF ~r.ok THEN r ELSE initializeParams(r.s, c, target, index + 1, d)

\* parameters index..n of target, in order; the values are handed to the
\* constructor and not kept
initializeParams(s, c, target, index, d) ==
  IF index > Len(paramTypes[target]) THEN Return(s, 0)
  ELSE NextParam(ParamValue(s, c, target, index, d), c, target, index, d)

\* instance[handler.propertyName] = handler.value(this), then the next handler
AssignProperty(r, c, target, inst, k, d) ==
  IF ~r.ok THEN r
  ELSE applyPropertyHandlers(
         [r.s EXCEPT !.heap[inst].props[getAllHandlers(c)[k].propertyName] = r.val],
         c, target, inst, k + 1, d)

\* fault: the value of a handler is resolved by the default container
ApplyWithDefaultContainer(s, c, target, inst, k, d) ==
  IF k > Len(getAllHandlers(c)) THEN Return(s, 0)
  ELSE
    LET h == getAllHandlers(c)[k] IN
    IF h.index # 0 \/ ~HandlerApplies(h, target) \/ h.propertyName = None
    THEN applyPropertyHandlers(s, c, target, inst, k + 1, d)
    ELSE AssignProperty(get(s, Root, h.dep, d - 1), c, target, inst, k, d)

\* handlers k.. of getAllHandlers(c) applied to the instance
applyPropertyHandlers(s, c, target, inst, k, d) ==
  IF k > Len(getAllHandlers(c)) THEN Return(s, 0)
  ELSE
    LET h == getAllHandlers(c)[k] IN
    IF h.index # 0 \/ ~HandlerApplies(h, target) \/ h.propertyName = None
    THEN applyPropertyHandlers(s, c, target, inst, k + 1, d)
    ELSE AssignProperty(get(s, c, h.dep, d - 1), c, target, inst, k, d)

\* what a factory hands back for the identifier
FactoryProduct(id) == IF id \in Classes THEN id ELSE "Obj"

\* new cls(...) once what it needs is there
NewInstance(r, cls) == IF ~r.ok THEN r ELSE NewObject(r.s, cls)

\* the factory class instance: from the container, else new factory[0]()
FactoryInstance(g, cls) ==
  IF ~g.ok /\ g.err = "ServiceNotFoundError" THEN NewObject(g.s, cls) ELSE g

\* the body of the try block up to the produced value
Construct(s, c, m, d) ==
  IF m.factory.kind = "array"
    THEN NewInstance(FactoryInstance(get(s, c, m.factory.cls, d - 1), m.factory.cls),
                     FactoryProduct(m.id))
  ELSE IF m.factory.kind = "fn" THEN NewObject(s, FactoryProduct(m.id))
  ELSE NewInstance(initializeParams(s, c, m.type, 1, d), m.type)

\* fault: the value is not kept in the record
NeverPersist(s, ref, v) == s

\* serviceMetadata.value = value
Persist(s, ref, v) ==
  IF ref.stored /\ ref.id \in DOMAIN s.mm[ref.c]
  THEN [s EXCEPT !.mm[ref.c][ref.id].value = v]
  ELSE s

\* fault: a resolution that throws leaves its identifier on the stack
KeepOnStack(r, c, id) == r

\* the finally block
Finally(r, c, id) == [r EXCEPT !.s = PopStack(r.s, c, id)]

Returning(r, v) == IF r.ok THEN Return(r.s, v) ELSE r

\* the try block from the produced value on
Constructed(r, c, ref, m, d) ==
  IF ~r.ok THEN Finally(r, c, m.id)
  ELSE IF m.type # None
    THEN Finally(Returning(applyPropertyHandlers(
                   PopStack(IF m.scope # "transient" THEN Persist(r.s, ref, r.val) ELSE r.s,
                            c, m.id),
                   c, m.type, r.val, 1, d), r.val), c, m.id)
  ELSE Return(PopStack(IF m.scope # "transient" THEN Persist(r.s, ref, r.val) ELSE r.s,
                       c, m.id), r.val)

getServiceValue(s, c, ref, d) ==
  LET m == Meta(s, ref) IN
  IF m.value # EMPTY_VALUE THEN Return(s, m.value)
  ELSE IF m.factory.kind = "none" /\ m.type = None
    THEN Throw(s, "CannotInstantiateValueError")
  ELSE IF StackIncludes(s.stack[c], m.id) THEN ThrowCircular(s, s.stack[c])
  ELSE Constructed(Construct([s EXCEPT !.stack[c] = Append(@, m.id)], c, m, d),
                   c, ref, m, d)

\* { ...metadata }: the options object a record spreads into
AsOptions(m) ==
  [id |-> m.id, type |-> m.type, factory |-> m.factory, value |-> m.value,
   multiple |-> m.multiple, eager |-> m.eager, scope |-> m.scope,
   hasAsync |-> TRUE, async |-> m.async,
   hasLifecycle |-> TRUE, onInit |-> m.onInit, onDestroy |-> m.onDestroy]

\* fault: lookupStrategy is not looked at
SingletonLookupOnly(c) == options[c].allowSingletonLookup

\* fault: allowSingletonLookup is not looked at
LookupStrategyOnly(c) == options[c].lookupStrategy # "localOnly"

allowExternalLookup(c) ==
  options[c].lookupStrategy # "localOnly" /\ options[c].allowSingletonLookup

\* which record get/getAsync prefer: "global", "local", "clone" or "none"
Preferred(s, c, id) ==
  LET hasG == allowExternalLookup(c) /\ id \in DOMAIN s.mm[Root]
      hasL == id \in DOMAIN s.mm[c]
  IN IF hasG /\ s.mm[Root][id].scope = "singleton" THEN "global"
     ELSE IF hasL THEN "local"
     ELSE IF hasG /\ c # Root THEN "clone"
     ELSE "none"

\* this.set({ ...clonedService, value }); return value
CloneResolved(r, c, clonedService, d) ==
  IF ~r.ok THEN r
  ELSE Returning(set(r.s, c, AsOptions([clonedService EXCEPT !.value = r.val]), d), r.val)

\* const value = this.getServiceValue(clonedService)
CloneRegistered(r, c, clonedService, d) ==
  IF ~r.ok THEN r
  ELSE CloneResolved(getServiceValue(r.s, c, DetachedRef(clonedService), d),
                     c, clonedService, d)

get(s, c, id, d) ==
  IF d <= 0 THEN Throw(s, "RangeError")
  ELSE IF throwIfDisposed(c) THEN Throw(s, DisposedError)
  ELSE IF Preferred(s, c, id) = "global" THEN
    IF s.mm[Root][id].multiple THEN Throw(s, "Error")
    ELSE getServiceValue(s, c, StoredRef(Root, id), d)
  ELSE IF Preferred(s, c, id) = "local" THEN
    IF s.mm[c][id].multiple THEN Throw(s, "Error")
    ELSE getServiceValue(s, c, StoredRef(c, id), d)
  ELSE IF Preferred(s, c, id) = "clone" THEN
    CloneRegistered(set(s, c, AsOptions([s.mm[Root][id] EXCEPT !.value = EMPTY_VALUE]), d),
                    c, [s.mm[Root][id] EXCEPT !.value = EMPTY_VALUE], d)
  ELSE Throw(s, "ServiceNotFoundError")

\* the record set stores: the defaults, the options given and, for a record that
\* exists, its keys the options leave out
NewMetadata(s, c, o, id) ==
  [id |-> id, type |-> o.type, factory |-> o.factory, value |-> o.value,
   multiple |-> FALSE, eager |-> o.eager,
   scope |-> IF o.scope = None THEN "container" ELSE o.scope,
   async |-> IF o.hasAsync THEN o.async
             ELSE IF id \in DOMAIN s.mm[c] THEN s.mm[c][id].async ELSE FALSE,
   onInit |-> IF o.hasLifecycle THEN o.onInit
              ELSE IF id \in DOMAIN s.mm[c] THEN s.mm[c][id].onInit ELSE FALSE,
   onDestroy |-> IF o.hasLifecycle THEN o.onDestroy
                 ELSE IF id \in DOMAIN s.mm[c] THEN s.mm[c][id].onDestroy ELSE FALSE]

\* fault: the new token is put in front of the group's tokens
MaskMultipleInFront(s, c, o, id0) ==
  IF id0 \in DOMAIN s.multi[c]
  THEN [s.multi EXCEPT ![c][id0].tokens = <<Tokens[s.ntok + 1]>> \o @]
  ELSE [s.multi EXCEPT ![c] = MapPut(@, id0,
          [scope |-> IF o.scope = None THEN "container" ELSE o.scope,
           tokens |-> <<Tokens[s.ntok + 1]>>])]

\* the masking of a multiple registration of id0 under a new token
MaskMultiple(s, c, o, id0) ==
  IF id0 \in DOMAIN s.multi[c]
  THEN [s.multi EXCEPT ![c][id0].tokens = Append(@, Tokens[s.ntok + 1])]
  ELSE [s.multi EXCEPT ![c] = MapPut(@, id0,
          [scope |-> IF o.scope = None THEN "container" ELSE o.scope,
           tokens |-> <<Tokens[s.ntok + 1]>>])]

\* the state once the record is in the map
Stored(s, c, o, id0) ==
  IF o.multiple
  THEN [s EXCEPT !.mm[c] = MapPut(@, Tokens[s.ntok + 1],
                                  NewMetadata(s, c, o, Tokens[s.ntok + 1])),
                 !.multi = MaskMultiple(s, c, o, id0),
                 !.ntok = @ + 1]
  ELSE [s EXCEPT !.mm[c] = MapPut(@, id0, NewMetadata(s, c, o, id0))]

\* the value a call made for its effect hands back is dropped
Discard(r) == IF r.ok THEN Return(r.s, 0) ELSE r

\* fault: a singleton is stored on the container set is called on
SetLocally(s, c, o, d) ==
  IF throwIfDisposed(c) THEN Throw(s, DisposedError)
  ELSE
    LET id0 == IF o.id # None THEN o.id ELSE o.type IN
    IF o.eager /\ o.scope # "transient" /\ ~(o.hasAsync /\ o.async)
    THEN Discard(get(Stored(s, c, o, id0), c,
                     IF o.multiple THEN Tokens[s.ntok + 1] ELSE id0, d - 1))
    ELSE Return(Stored(s, c, o, id0), 0)

\* fault: set constructs nothing, so no failure of a construction reaches its caller
SetSwallowing(s, c, o, d) ==
  IF throwIfDisposed(c) THEN Throw(s, DisposedError)
  ELSE Return(Stored(s, c, o, IF o.id # None THEN o.id ELSE o.type), 0)

set(s, c, o, d) ==
  IF throwIfDisposed(c) THEN Throw(s, DisposedError)
  ELSE IF o.scope = "singleton" /\ c # Root THEN set(s, Root, o, d)
  ELSE
    LET id0 == IF o.id # None THEN o.id ELSE o.type IN
    IF o.eager /\ o.scope # "transient" /\ ~(o.hasAsync /\ o.async)
    THEN Discard(get(Stored(s, c, o, id0), c,
                     IF o.multiple THEN Tokens[s.ntok + 1] ELSE id0, d - 1))
    ELSE Return(Stored(s, c, o, id0), 0)

(* --------------------- has, getMany, remove, reset -------------------- *)
has(s, c, id) ==
  IF throwIfDisposed(c) THEN Throw(s, DisposedError)
  ELSE [Return(s, 0) EXCEPT !.val = IF id \in DOMAIN s.mm[c] \/ id \in DOMAIN s.multi[c]
                                    THEN 1 ELSE 0]

\* tokens k.. of the group resolved through get on container c; the result
\* list is built in acc
RECURSIVE GetTokens(_, _, _, _, _, _)
NextToken(r, c, tokens, k, acc, d) ==
  IF ~r.ok THEN r ELSE GetTokens(r.s, c, tokens, k + 1, Append(acc, r.val), d)

GetTokens(s, c, tokens, k, acc, d) ==
  IF k > Len(tokens) THEN [Return(s, 0) EXCEPT !.path = acc]
  ELSE NextToken(get(s, c, tokens[k], d - 1), c, tokens, k, acc, d)

\* the values come back in the path field of the outcome
getMany(s, c, id, d) ==
  IF throwIfDisposed(c) THEN Throw(s, DisposedError)
  ELSE IF allowExternalLookup(c) /\ id \in DOMAIN s.multi[Root]
          /\ s.multi[Root][id].scope = "singleton"
    THEN GetTokens(s, Root, s.multi[Root][id].tokens, 1, <<>>, d)
  ELSE IF id \in DOMAIN s.multi[c]
    THEN GetTokens(s, c, s.multi[c][id].tokens, 1, <<>>, d)
  ELSE Throw(s, "ServiceNotFoundError")

\* we reset the value only if we can re-create it
shouldResetValue(m) == m.type # None \/ m.factory.kind # "none"

\* fault: dispose() is never called
NoDisposeCall(s, v) == s

\* value.dispose() is called when the value has such a method
CallDisposeMethod(s, v) ==
  IF v # EMPTY_VALUE /\ HasDisposeMethod(s.heap[v].cls)
  THEN [s EXCEPT !.heap[v].disposeCalls = @ + 1]
  ELSE s

\* fault: the value is kept once disposed of
DisposeKeepingValue(s, c, id) ==
  IF shouldResetValue(s.mm[c][id]) THEN CallDisposeMethod(s, s.mm[c][id].value) ELSE s

disposeServiceInstance(s, c, id) ==
  IF shouldResetValue(s.mm[c][id])
  THEN [CallDisposeMethod(s, s.mm[c][id].value) EXCEPT !.mm[c][id].value = EMPTY_VALUE]
  ELSE s

\* metadataMap.forEach(service => this.disposeServiceInstance(service))
RECURSIVE DisposeAll(_, _, _)
DisposeAll(s, c, ids) ==
  IF ids = {} THEN s
  ELSE LET id == CHOOSE x \in ids : TRUE
       IN DisposeAll(disposeServiceInstance(s, c, id), c, ids \ {id})

remove(s, c, id) ==
  IF throwIfDisposed(c) THEN Throw(s, DisposedError)
  ELSE IF id \in DOMAIN s.mm[c]
    THEN Return([disposeServiceInstance(s, c, id) EXCEPT !.mm[c] = MapDel(@, id)], 0)
  ELSE Return(s, 0)

\* the handler list is cleared by the caller of reset (resetServices)
reset(s, c, strategy) ==
  IF throwIfDisposed(c) THEN Throw(s, DisposedError)
  ELSE IF strategy = "resetValue" THEN Return(DisposeAll(s, c, DOMAIN s.mm[c]), 0)
  ELSE Return([DisposeAll(s, c, DOMAIN s.mm[c]) EXCEPT !.mm[c] = <<>>, !.multi[c] = <<>>], 0)


(* ------------------------ asynchronous calls -------------------------- *)
\* the tasks that hold a record of container c among ids keep the object
\* once the map drops it: their reference is to a detached record from then
DetachItem(it, s, c, ids) ==
  IF it.ref.stored /\ it.ref.c = c /\ it.ref.id \in ids
  THEN [it EXCEPT !.ref = DetachedRef(s.mm[c][it.ref.id])]
  ELSE it

Detach(ts, s, c, ids) ==
  [k \in 1..Len(ts) |->
     [ts[k] EXCEPT !.items = [i \in 1..Len(ts[k].items) |->
                                DetachItem(ts[k].items[i], s, c, ids)]]]

(* --------------------------- observations ----------------------------- *)
\* the latest public call, or the latest settled promise of one:
\*   pending: the call returned a promise that has not settled
\*   late:    the container was disposed already when the call was made
NoCall == [op |-> "none", c |-> None, id |-> None, ok |-> TRUE, val |-> 0,
           err |-> "", path |-> <<>>, pending |-> FALSE, late |-> FALSE]

Outcome(op, c, id, r) ==
  [op |-> op, c |-> c, id |-> id, ok |-> r.ok, val |-> r.val, err |-> r.err,
   path |-> r.path, pending |-> FALSE, late |-> disposed[c]]

Pending(op, c, id) ==
  [Outcome(op, c, id, Return(State, 0)) EXCEPT !.pending = TRUE]

Commit(r) ==
  /\ metadataMap' = r.s.mm
  /\ multiServiceIds' = r.s.multi
  /\ resolutionStack' = r.s.stack
  /\ heap' = r.s.heap
  /\ ntok' = r.s.ntok

\* lastGot forgets what was got for ids of container c; a change of a record
\* of the default container is seen by every container
Forget(got, c, ids) ==
  [x \in Containers |-> [id \in DOMAIN got[x] |->
     IF id \in ids /\ (x = c \/ c = Root) THEN 0 ELSE got[x][id]]]

hierarchyVars == <<containers, parent, options, paramTypes>>

(* ----------------------- calls of public methods ---------------------- *)
\* the call returned r: the state it left and what the caller sees
Returned(op, c, id, r) ==
  /\ Len(r.s.heap) <= MaxInst
  /\ Commit(r)
  /\ last' = Outcome(op, c, id, r)

GetReturned(c, id, r) ==
  /\ Returned("get", c, id, r)
  /\ lastGot' = IF r.ok THEN [lastGot EXCEPT ![c][id] = r.val] ELSE lastGot

CallGet(c, id) ==
  /\ c \in containers
  /\ GetReturned(c, id, get(State, c, id, MaxDepth))
  /\ UNCHANGED <<hierarchyVars, handlers, disposed, tasks>>

\* the container a set on c stores the record in
SetTarget(c, o) == IF o.scope = "singleton" THEN Root ELSE c

\* lit: the class of the literal the caller passes as value, or None
CallSet(c, o, lit) ==
  /\ c \in containers
  /\ o.multiple => ntok < Len(Tokens)
  /\ Returned("set", c, IF o.id # None THEN o.id ELSE o.type,
              IF lit = None \/ throwIfDisposed(c) THEN set(State, c, o, MaxDepth)
              ELSE set(NewObject(State, lit).s, c,
                       [o EXCEPT !.value = Len(heap) + 1], MaxDepth))
  /\ lastGot' = IF disposed[c] \/ disposed[SetTarget(c, o)] THEN lastGot
                ELSE Forget(lastGot, SetTarget(c, o),
                            {IF o.id # None THEN o.id ELSE o.type})
  /\ UNCHANGED <<hierarchyVars, handlers, disposed, tasks>>

CallHas(c, id) ==
  /\ c \in containers
  /\ last' = Outcome("has", c, id, has(State, c, id))
  /\ UNCHANGED <<hierarchyVars, metadataMap, multiServiceIds, resolutionStack, heap,
                 ntok, handlers, disposed, tasks, lastGot>>

CallGetMany(c, id) ==
  /\ c \in containers
  /\ Returned("getMany", c, id, getMany(State, c, id, MaxDepth))
  /\ UNCHANGED <<hierarchyVars, handlers, disposed, tasks, lastGot>>

CallRemove(c, id) ==
  /\ c \in containers
  /\ Returned("remove", c, id, remove(State, c, id))
  /\ tasks' = IF ~disposed[c] /\ id \in DOMAIN metadataMap[c]
              THEN Detach(tasks, disposeServiceInstance(State, c, id), c, {id})
              ELSE tasks
  /\ lastGot' = IF ~disposed[c] THEN Forget(lastGot, c, {id}) ELSE lastGot
  /\ UNCHANGED <<hierarchyVars, handlers, disposed>>

\* fault: the handlers are held in one list all containers share
ClearEveryHandler(hs, c) == [x \in Containers |-> <<>>]

\* fault: the handler list is left as it is
KeepHandlers(hs, c) == hs

\* this.handlers.length = 0
ClearHandlers(hs, c) == [hs EXCEPT ![c] = <<>>]

\* fault: the handler list is cleared whatever the strategy
HandlersAlwaysCleared(hs, c, strategy) == ClearHandlers(hs, c)

\* the handler lists after reset: only resetServices clears the container's
HandlersAfterReset(hs, c, strategy) ==
  IF strategy = "resetServices" THEN ClearHandlers(hs, c) ELSE hs

\* the strategy is kept as the id of the observed call
CallReset(c, strategy) ==
  /\ c \in containers
  /\ Returned("reset", c, strategy, reset(State, c, strategy))
  /\ handlers' = IF ~disposed[c] THEN HandlersAfterReset(handlers, c, strategy)
                 ELSE handlers
  /\ tasks' = IF ~disposed[c] /\ strategy = "resetServices"
              THEN Detach(tasks, DisposeAll(State, c, DOMAIN metadataMap[c]), c,
                          DOMAIN metadataMap[c])
              ELSE tasks
  /\ lastGot' = IF ~disposed[c] THEN Forget(lastGot, c, DOMAIN lastGot[c]) ELSE lastGot
  /\ UNCHANGED <<hierarchyVars, disposed>>

\* new ContainerInstance(childId, this) with the default options, registered
CallCreateChild(c, childId) ==
  /\ c \in containers
  /\ childId \notin containers
  /\ IF throwIfDisposed(c)
     THEN /\ last' = Outcome("createChild", c, None, Throw(State, DisposedError))
          /\ UNCHANGED <<containers, parent>>
     ELSE /\ containers' = containers \cup {childId}
          /\ parent' = [parent EXCEPT ![childId] = c]
          /\ last' = Outcome("createChild", c, None, Return(State, 0))
  /\ UNCHANGED <<options, paramTypes, metadataMap, multiServiceIds, resolutionStack,
                 heap, ntok, handlers, disposed, tasks, lastGot>>

\* { lookupStrategy: 'allowLookup', allowSingletonLookup: true, ...options }
DefaultOptions == [lookupStrategy |-> "allowLookup", allowSingletonLookup |-> TRUE]

\* the defaults, overridden by the keys the partial options o have
MergedOptions(o) ==
  [k \in DOMAIN DefaultOptions |-> IF k \in DOMAIN o THEN o[k] ELSE DefaultOptions[k]]

\* new ContainerInstance(id, p, o), registered; p is None when no parent is
\* given
CallNewContainer(id, p, o) ==
  /\ id \notin containers
  /\ p \in containers \cup {None}
  /\ containers' = containers \cup {id}
  /\ parent' = [parent EXCEPT ![id] = p]
  /\ options' = [options EXCEPT ![id] = MergedOptions(o)]
  /\ last' = Outcome("new", id, None, Return(State, 0))
  /\ UNCHANGED <<paramTypes, metadataMap, multiServiceIds, resolutionStack,
                 heap, ntok, handlers, disposed, tasks, lastGot>>

registerHandler(c, h) == [handlers EXCEPT ![c] = Append(@, h)]

CallRegisterHandler(c, h) ==
  /\ c \in containers
  /\ Len(handlers[c]) < MaxHandlers
  /\ handlers' = registerHandler(c, h)
  /\ last' = Outcome("registerHandler", c, None, Return(State, 0))
  /\ UNCHANGED <<hierarchyVars, metadataMap, multiServiceIds, resolutionStack, heap,
                 ntok, disposed, tasks, lastGot>>


(* --------------------- asynchronous construction ---------------------- *)
WithPc(r, pc) ==
  [s |-> r.s, ok |-> r.ok, val |-> r.val, err |-> r.err, path |-> r.path, pc |-> pc]

\* await onInit(value) when the record has the hook: pc "onInit"; else the
\* call returns: pc "ret"
HandlersApplied(r, m, v) ==
  IF ~r.ok THEN WithPc(r, "failed")
  ELSE IF m.onInit
    THEN WithPc(Return([r.s EXCEPT !.heap[v].initCalls = @ + 1], v), "onInit")
  ELSE WithPc(Return(r.s, v), "ret")

\* getServiceValueAsync once the value is there: store it, apply the property
\* handlers, call onInit
AfterValue(s, c, ref, v) ==
  LET m == Meta(s, ref) IN
  IF m.type # None
  THEN HandlersApplied(
         applyPropertyHandlers(IF m.scope # "transient" THEN Persist(s, ref, v) ELSE s,
                               c, m.type, v, 1, MaxDepth), m, v)
  ELSE HandlersApplied(Return(IF m.scope # "transient" THEN Persist(s, ref, v) ELSE s, 0),
                       m, v)

\* the value was produced without an await
Produced(r, c, ref) ==
  IF ~r.ok THEN WithPc(r, "failed") ELSE AfterValue(r.s, c, ref, r.val)

RECURSIVE getAsync(_, _, _, _)
RECURSIVE AsyncStart(_, _, _, _)

\* getServiceValueAsync up to its first await; pc "factory": awaiting the
\* promise of the factory.  A factory of kind "getAsync" is the function
\* (container) => container.getAsync(cls), registered for getAsync only: the
\* call of it runs that getAsync up to its first await, d calls deep at most,
\* and hands back its promise; it is registered where that promise is
\* rejected already or holds a value.
AsyncStart(s, c, ref, d) ==
  LET m == Meta(s, ref) IN
  IF m.value # EMPTY_VALUE THEN WithPc(Return(s, m.value), "ret")
  ELSE IF m.factory.kind = "array"
    THEN Produced(NewInstance(FactoryInstance(get(s, c, m.factory.cls, d),
                                              m.factory.cls),
                              FactoryProduct(m.id)), c, ref)
  ELSE IF m.factory.kind = "getAsync"
    THEN LET r == getAsync(s, c, m.factory.cls, d - 1)
         IN IF r.pc = "failed" THEN r ELSE WithPc(r, "factory")
  ELSE IF m.factory.kind = "fn"
    THEN WithPc(NewObject(s, FactoryProduct(m.id)), "factory")
  ELSE IF m.type # None
    THEN Produced(NewInstance(initializeParams(s, c, m.type, 1, d), m.type), c, ref)
  ELSE WithPc(Throw(s, "CannotInstantiateValueError"), "failed")

\* one awaiting promise chain of an asynchronous call
\*   clone:  getAsync took the clone path and still has to set the clone
\*   assign: init still has to assign metadata.value
Item(id, ref, pc, val, clone, assign) ==
  [id |-> id, ref |-> ref, pc |-> pc, val |-> val, clone |-> clone, assign |-> assign]

\* settled: the promise of the call is rejected already
\* late:    the container was disposed already when the call was made
\* snap:    the cached values the container held when dispose() was called
Task(kind, c, id, items, settled) ==
  [kind |-> kind, c |-> c, id |-> id, items |-> items, settled |-> settled,
   late |-> disposed[c], snap |-> {}]

Finished(it) == it.pc \in {"done", "failed"}
AllFinished(items) == \A i \in 1..Len(items) : Finished(items[i])

DropTask(ts, t) == SubSeq(ts, 1, t - 1) \o SubSeq(ts, t + 1, Len(ts))

\* where a returned getServiceValueAsync leaves its caller
AfterReturn(pc, clone, assign) ==
  IF pc = "ret" THEN (IF clone \/ assign THEN "settle" ELSE "done") ELSE pc

(* ------------------------------ getAsync ------------------------------ *)
\* const value = await this.getServiceValueAsync(clonedService)
AsyncCloneRegistered(r, c, clonedService, d) ==
  IF ~r.ok THEN WithPc(r, "failed")
  ELSE AsyncStart(r.s, c, DetachedRef(clonedService), d)

\* the call up to its first await, at most d calls deep: beyond that the
\* call stack of the runtime is exhausted (RangeError)
getAsync(s, c, id, d) ==
  IF d <= 0 THEN WithPc(Throw(s, "RangeError"), "failed")
  ELSE IF throwIfDisposed(c) THEN WithPc(Throw(s, DisposedError), "failed")
  ELSE IF Preferred(s, c, id) = "global" THEN
    IF s.mm[Root][id].multiple THEN WithPc(Throw(s, "Error"), "failed")
    ELSE AsyncStart(s, c, StoredRef(Root, id), d)
  ELSE IF Preferred(s, c, id) = "local" THEN
    IF s.mm[c][id].multiple THEN WithPc(Throw(s, "Error"), "failed")
    ELSE AsyncStart(s, c, StoredRef(c, id), d)
  ELSE IF Preferred(s, c, id) = "clone" THEN
    AsyncCloneRegistered(
      set(s, c, AsOptions([s.mm[Root][id] EXCEPT !.value = EMPTY_VALUE]), d),
      c, [s.mm[Root][id] EXCEPT !.value = EMPTY_VALUE], d)
  ELSE WithPc(Throw(s, "ServiceNotFoundError"), "failed")

\* the record the call works on
GetAsyncRef(c, id) ==
  IF Preferred(State, c, id) = "global" THEN StoredRef(Root, id)
  ELSE IF Preferred(State, c, id) = "clone"
    THEN DetachedRef([metadataMap[Root][id] EXCEPT !.value = EMPTY_VALUE])
  ELSE StoredRef(c, id)

\* the call stands at pc after its synchronous part r
GetAsyncStarted(c, id, r, clone, pc) ==
  /\ Len(r.s.heap) <= MaxInst
  /\ Commit(r)
  /\ IF Finished([pc |-> pc])
     THEN /\ tasks' = tasks
          /\ last' = Outcome("getAsync", c, id, r)
     ELSE /\ Len(tasks) < MaxTasks
          /\ tasks' = Append(tasks, Task("getAsync", c, id,
                         <<Item(id, GetAsyncRef(c, id), pc, r.val, clone, FALSE)>>,
                         FALSE))
          /\ last' = Pending("getAsync", c, id)

GetAsyncReturned(c, id, r, clone) ==
  GetAsyncStarted(c, id, r, clone, AfterReturn(r.pc, clone, FALSE))

CallGetAsync(c, id) ==
  /\ c \in containers
  /\ GetAsyncReturned(c, id, getAsync(State, c, id, MaxDepth),
                      ~disposed[c] /\ Preferred(State, c, id) = "clone")
  /\ UNCHANGED <<hierarchyVars, handlers, disposed, lastGot>>


(* ------------------------------- dispose ------------------------------ *)
\* the records whose instance has dispose() called in the synchronous part of
\* dispose(): a cached instance with the method, no onDestroy hook
SyncDisposed(c) ==
  {id \in DOMAIN metadataMap[c] :
     LET m == metadataMap[c][id] IN
       /\ m.value # EMPTY_VALUE /\ shouldResetValue(m) /\ ~m.onDestroy
       /\ HasDisposeMethod(heap[m.value].cls)}

\* serviceMetadata.value = EMPTY_VALUE
ClearValue(s, ref) == Persist(s, ref, EMPTY_VALUE)

\* disposeServiceInstanceAsync for the records ids of container c, up to the
\* promises it returns.  out[id] tells whether value.dispose() of the record
\* returned a promise ("promise") or returned or threw at once ("sync")
RECURSIVE DisposeStart(_, _, _, _, _)
DisposeStart(s, c, ids, out, items) ==
  IF ids = {} THEN [s |-> s, items |-> items]
  ELSE
    LET id == CHOOSE x \in ids : TRUE
        m == s.mm[c][id]
        v == m.value
        rest == ids \ {id}
    IN
    IF v = EMPTY_VALUE \/ ~shouldResetValue(m) THEN DisposeStart(s, c, rest, out, items)
    ELSE IF m.onDestroy
      THEN DisposeStart(s, c, rest, out,
                        Append(items, Item(id, StoredRef(c, id), "queued", v, FALSE, FALSE)))
    ELSE IF HasDisposeMethod(s.heap[v].cls) /\ out[id] = "promise"
      THEN DisposeStart(CallDisposeMethod(s, v), c, rest, out,
                        Append(items, Item(id, StoredRef(c, id), "plain", v, FALSE, FALSE)))
    ELSE DisposeStart(ClearValue(CallDisposeMethod(s, v), StoredRef(c, id)),
                      c, rest, out, items)

\* the cached values of container c: the record, the object, whether the record
\* has an onDestroy hook and a type or factory, and how often the object was
\* torn down so far
Snapshot(c) ==
  {[id |-> id, val |-> metadataMap[c][id].value,
    hook |-> metadataMap[c][id].onDestroy,
    recreatable |-> shouldResetValue(metadataMap[c][id]),
    disposeCalls |-> heap[metadataMap[c][id].value].disposeCalls,
    destroyCalls |-> heap[metadataMap[c][id].value].destroyCalls] :
     id \in {x \in DOMAIN metadataMap[c] : metadataMap[c][x].value # EMPTY_VALUE}}

\* dispose() stands at await Promise.all(disposePromises)
DisposeStarted(c, r) ==
  /\ Len(tasks) < MaxTasks
  /\ Commit(r)
  /\ tasks' = Append(tasks, [Task("dispose", c, None, r.items, FALSE)
                               EXCEPT !.snap = Snapshot(c)])
  /\ last' = Pending("dispose", c, None)
  /\ lastGot' = Forget(lastGot, c,
         {id \in DOMAIN metadataMap[c] : r.s.mm[c][id].value # metadataMap[c][id].value})

\* dispose() and its alias [Symbol.asyncDispose]() up to await Promise.all
CallDispose(c, out) ==
  /\ c \in containers
  /\ out \in [SyncDisposed(c) -> {"sync", "promise"}]
  /\ IF throwIfDisposed(c) /\ DOMAIN metadataMap[c] # {}
     THEN /\ last' = Outcome("dispose", c, None, Throw(State, DisposedError))
          /\ UNCHANGED <<metadataMap, multiServiceIds, resolutionStack, heap, ntok,
                         tasks, lastGot>>
     ELSE DisposeStarted(c, DisposeStart(State, c, DOMAIN metadataMap[c], out, <<>>))
  /\ UNCHANGED <<hierarchyVars, handlers, disposed>>

\* await Promise.all(promises) goes on: every promise is fulfilled
PromiseAllFulfilled(items) == \A i \in 1..Len(items) : items[i].pc = "done"

\* the continuation of dispose() after await Promise.all(disposePromises)
DisposeComplete(t) ==
  /\ t \in 1..Len(tasks)
  /\ tasks[t].kind = "dispose"
  /\ ~tasks[t].settled
  /\ PromiseAllFulfilled(tasks[t].items)
  /\ LET c == tasks[t].c IN
     /\ metadataMap' = [metadataMap EXCEPT ![c] = <<>>]
     /\ multiServiceIds' = [multiServiceIds EXCEPT ![c] = <<>>]
     /\ disposed' = [disposed EXCEPT ![c] = TRUE]
     /\ tasks' = Detach(DropTask(tasks, t), State, c, DOMAIN metadataMap[c])
     /\ last' = [Outcome("dispose", c, None, Return(State, 0))
                   EXCEPT !.late = tasks[t].late]
     /\ lastGot' = Forget(lastGot, c, Ids)
  /\ UNCHANGED <<hierarchyVars, handlers, resolutionStack, heap, ntok>>

(* ------------------------ resuming after await ------------------------ *)
StepResult(s, it, err) == [s |-> s, it |-> it, err |-> err]

\* the chain goes on from where getServiceValueAsync left it
ValueStep(r, it) ==
  StepResult(r.s, [it EXCEPT !.pc = AfterReturn(r.pc, it.clone, it.assign)], r.err)

\* this.set({ ...clonedService, value }) returned
CloneStep(r, it) ==
  StepResult(r.s, [it EXCEPT !.pc = IF r.ok THEN "done" ELSE "failed"], r.err)

\* fault: dispose() of the instance is called along with the hook, not after it
InvokeOnDestroyUnawaited(s, v) ==
  CallDisposeMethod([s EXCEPT !.heap[v].destroyCalls = @ + 1], v)

\* await serviceMetadata.lifecycle.onDestroy(value): the hook is called
InvokeOnDestroy(s, v) == [s EXCEPT !.heap[v].destroyCalls = @ + 1]

\* the promise chain `it` of a call on container c goes on after the awaited
\* promise settled with outcome "ok" or "fail"
StepItem(s, c, it, outcome) ==
  CASE it.pc = "factory" ->
         IF outcome = "fail" THEN StepResult(s, [it EXCEPT !.pc = "failed"], "rejected")
         ELSE ValueStep(AfterValue(s, c, it.ref, it.val), it)
    [] it.pc = "onInit" ->
         IF outcome = "fail" THEN StepResult(s, [it EXCEPT !.pc = "failed"], "rejected")
         ELSE StepResult(s, [it EXCEPT !.pc = AfterReturn("ret", it.clone, it.assign)], "")
    [] it.pc = "settle" ->
         IF it.clone
         THEN CloneStep(set(s, c, AsOptions([it.ref.rec EXCEPT !.value = it.val]), MaxDepth),
                        it)
         ELSE StepResult(Persist(s, it.ref, it.val), [it EXCEPT !.pc = "done"], "")
    [] it.pc = "queued" ->
         StepResult(InvokeOnDestroy(s, it.val), [it EXCEPT !.pc = "hook"], "")
    [] it.pc = "hook" ->
         IF outcome = "ok" /\ HasDisposeMethod(s.heap[it.val].cls)
         THEN StepResult(CallDisposeMethod(s, it.val), [it EXCEPT !.pc = "dispose"], "")
         ELSE StepResult(ClearValue(s, it.ref), [it EXCEPT !.pc = "done"], "")
    [] it.pc = "dispose" ->
         StepResult(ClearValue(s, it.ref), [it EXCEPT !.pc = "done"], "")
    [] it.pc = "plain" ->
         StepResult(ClearValue(s, it.ref),
                    [it EXCEPT !.pc = IF outcome = "ok" THEN "done" ELSE "failed"],
                    IF outcome = "ok" THEN "" ELSE "rejected")

\* the promise of the call rejects at this step
FailsNow(tk, r) == r.it.pc = "failed" /\ ~tk.settled

\* the task once chain i stands where r tells
Stepped(tk, i, r) ==
  [tk EXCEPT !.items[i] = r.it, !.settled = @ \/ FailsNow(tk, r)]

\* the awaited promises of the call are settled: a getAsync or init call
\* returns here, a dispose call goes on in DisposeComplete unless it is rejected
Leaves(tk, i, r) ==
  /\ AllFinished(Stepped(tk, i, r).items)
  /\ tk.kind # "dispose" \/ Stepped(tk, i, r).settled

Resumed(t, i, tk, r) ==
  /\ Len(r.s.heap) <= MaxInst
  /\ Commit(r)
  /\ tasks' = IF Leaves(tk, i, r) THEN DropTask(tasks, t)
              ELSE [tasks EXCEPT ![t] = Stepped(tk, i, r)]
  /\ last' = IF FailsNow(tk, r)
               THEN [Outcome(tk.kind, tk.c, tk.id, Throw(State, r.err))
                       EXCEPT !.late = tk.late]
             ELSE IF Leaves(tk, i, r) /\ ~tk.settled /\ tk.kind # "dispose"
               THEN [Outcome(tk.kind, tk.c, tk.id, Return(State, r.it.val))
                       EXCEPT !.late = tk.late]
             ELSE last
  /\ lastGot' = IF tk.kind = "dispose" /\ Finished(r.it)
                THEN Forget(lastGot, tk.c, {r.it.id})
                ELSE lastGot

Resume(t, i, outcome) ==
  /\ t \in 1..Len(tasks)
  /\ i \in 1..Len(tasks[t].items)
  /\ ~Finished(tasks[t].items[i])
  /\ outcome = "fail" => tasks[t].items[i].pc \in {"factory", "onInit", "hook", "dispose", "plain"}
  /\ Resumed(t, i, tasks[t], StepItem(State, tasks[t].c, tasks[t].items[i], outcome))
  /\ UNCHANGED <<hierarchyVars, handlers, disposed>>

(* -------------------------------- init -------------------------------- *)
\* the callbacks of init() for the records order[k..], each run up to its first
\* await, in the order the map hands them out
RECURSIVE InitStart(_, _, _, _, _, _)

FirstError(err, r) == IF err = "" THEN r.err ELSE err

\* const value = await this.getServiceValueAsync(metadata)
InitAsyncStarted(r, c, order, k, items, err) ==
  IF r.pc = "failed"
  THEN InitStart(r.s, c, order, k + 1, items, FirstError(err, r))
  ELSE InitStart(r.s, c, order, k + 1,
                 Append(items, Item(order[k], StoredRef(c, order[k]),
                                    AfterReturn(r.pc, FALSE, TRUE), r.val, FALSE, TRUE)),
                 err)

\* metadata.value = this.getServiceValue(metadata)
InitResolved(r, c, order, k, items, err) ==
  IF ~r.ok
  THEN InitStart(r.s, c, order, k + 1, items, FirstError(err, r))
  ELSE InitStart(Persist(r.s, StoredRef(c, order[k]), r.val), c, order, k + 1, items, err)

InitStart(s, c, order, k, items, err) ==
  IF k > Len(order) THEN [s |-> s, items |-> items, err |-> err]
  ELSE
    LET m == s.mm[c][order[k]] IN
    IF m.value = EMPTY_VALUE THEN
      IF m.async
      THEN InitAsyncStarted(AsyncStart(s, c, StoredRef(c, order[k]), MaxDepth),
                            c, order, k, items, err)
      ELSE InitResolved(getServiceValue(s, c, StoredRef(c, order[k]), MaxDepth),
                        c, order, k, items, err)
    ELSE IF m.async /\ m.onInit
      THEN InitStart([s EXCEPT !.heap[m.value].initCalls = @ + 1], c, order, k + 1,
                     Append(items, Item(order[k], StoredRef(c, order[k]), "onInit",
                                        m.value, FALSE, FALSE)), err)
    ELSE InitStart(s, c, order, k + 1, items, err)

\* the records init() collects
InitIds(c) == {id \in DOMAIN metadataMap[c] : metadataMap[c][id].eager \/ metadataMap[c][id].async}

\* the orders a Map may hand out the identifiers ids
Orders(ids) ==
  {q \in [1..Cardinality(ids) -> ids] : \A i, j \in 1..Cardinality(ids) : i # j => q[i] # q[j]}

\* init() stands at its await Promise.all, or threw before it
InitStarted(c, r) ==
  /\ Len(r.s.heap) <= MaxInst
  /\ Commit(r)
  /\ IF r.items = <<>>
     THEN tasks' = tasks
     ELSE /\ Len(tasks) < MaxTasks
          /\ tasks' = Append(tasks, Task("init", c, None, r.items, r.err # ""))
  /\ last' = IF r.err # "" THEN Outcome("init", c, None, Throw(State, r.err))
             ELSE IF r.items # <<>> THEN Pending("init", c, None)
             ELSE Outcome("init", c, None, Return(State, 0))

CallInit(c, order) ==
  /\ c \in containers
  /\ IF throwIfDisposed(c)
     THEN /\ order = <<>>
          /\ last' = Outcome("init", c, None, Throw(State, DisposedError))
          /\ UNCHANGED <<metadataMap, multiServiceIds, resolutionStack, heap, ntok, tasks>>
     ELSE /\ order \in Orders(InitIds(c))
          /\ InitStarted(c, InitStart(State, c, order, 1, <<>>, ""))
  /\ UNCHANGED <<hierarchyVars, handlers, disposed, lastGot>>


(* ------------------------- initial state, inputs ---------------------- *)
\* the design:paramtypes the decorated classes may carry: no constructor
\* parameters, or A(b: B) with B(a: A)
ParamConfigs == {[cls \in Classes |-> <<>>],
                 [cls \in Classes |-> IF cls = "A" THEN <<"B">> ELSE <<"A">>]}

\* the state after the modules are loaded: the default container alone
InitWith(params) ==
  /\ containers = {Root}
  /\ parent = [c \in Containers |-> None]
  /\ options = [c \in Containers |-> DefaultOptions]
  /\ paramTypes \in params
  /\ metadataMap = [c \in Containers |-> <<>>]
  /\ multiServiceIds = [c \in Containers |-> <<>>]
  /\ handlers = [c \in Containers |-> <<>>]
  /\ resolutionStack = [c \in Containers |-> <<>>]
  /\ disposed = [c \in Containers |-> FALSE]
  /\ heap = <<>>
  /\ ntok = 0
  /\ tasks = <<>>
  /\ last = NoCall
  /\ lastGot = [c \in Containers |-> [id \in Ids |-> 0]]

\* ServiceOptions objects callers pass to set
Options(id, type, factory, scope, eager) ==
  [id |-> id, type |-> type, factory |-> factory, value |-> EMPTY_VALUE,
   multiple |-> FALSE, eager |-> eager, scope |-> scope,
   hasAsync |-> FALSE, async |-> FALSE,
   hasLifecycle |-> FALSE, onInit |-> FALSE, onDestroy |-> FALSE]

Scopes == {"singleton", "container", "transient"}

\* @Inject() on property `prop` of class cls, resolving identifier dep
PropertyHandler(cls, prop, dep) ==
  [object |-> cls, proto |-> TRUE, propertyName |-> prop, index |-> 0, dep |-> dep]

\* lifecycle: { onDestroy } given with the options
WithOnDestroy(o, hook) == [o EXCEPT !.hasLifecycle = TRUE, !.onDestroy = hook]

(* --------------- scopes: singleton and transient services ------------- *)
\* class A registered by type or by factory on the default container and
\* resolved from it and from a child
ScopeMenu ==
  {Options(None, "A", NoFactory, sc, FALSE) : sc \in {"singleton", "transient"}}
  \cup {Options("A", None, FnFactory, "singleton", FALSE)}

Init == InitWith({[cls \in Classes |-> <<>>]})

Next ==
  \/ \E o \in ScopeMenu : CallSet(Root, o, None)
  \/ \E c \in {Root, "c1"} : CallGet(c, "A")
  \/ \E c \in {Root, "c1"} : CallGetAsync(c, "A")
  \/ \E t \in 1..MaxTasks, o \in {"ok", "fail"} : Resume(t, 1, o)
  \/ CallCreateChild(Root, "c1")
  \/ CallRemove(Root, "A")
  \/ CallReset(Root, "resetValue")

Spec == Init /\ [][Next]_vars

\* the record get prefers for id on container c, by the maps mm
PreferredRecord(mm, c, id) ==
  IF id \in DOMAIN mm[Root] /\ mm[Root][id].scope = "singleton" THEN mm[Root][id]
  ELSE IF id \in DOMAIN mm[c] THEN mm[c][id]
  ELSE mm[Root][id]

\* C1: singleton identity.  A get(id) of a singleton-scoped registration
\* returns the instance every earlier get(id), on whichever container, has
\* returned since the record was last registered, reset or removed.
C1_SingletonIdentity ==
  [][\A c \in Containers, id \in Classes :
       (/\ last'.op = "get" /\ last'.ok
        /\ CallGet(c, id)
        /\ id \in DOMAIN metadataMap[Root]
        /\ metadataMap[Root][id].scope = "singleton")
       => \A x \in Containers : lastGot[x][id] \in {0, last'.val}]_vars

\* C2: transient freshness.  A get(id) of a transient-scoped registration, on
\* the default container or on a child that falls back to its definition,
\* returns an instance other than the one the previous get(id) on that
\* container returned.
C2_TransientFreshness ==
  [][\A c \in Containers, id \in Classes :
       (/\ last'.op = "get" /\ last'.ok
        /\ CallGet(c, id)
        /\ Preferred(State, c, id) \in {"local", "clone"}
        /\ PreferredRecord(metadataMap, c, id).scope = "transient"
        /\ lastGot[c][id] # 0)
       => last'.val # lastGot[c][id]]_vars

(* ------------- cycles: constructor and property injection ------------- *)
\* classes A and B registered by type on the default container, with the
\* constructor parameters of ParamConfigs or @Inject() properties A.b and B.a;
\* the registrations and decorators come first, the resolutions after
CycleMenu == {Options(None, cls, NoFactory, sc, FALSE) : cls \in Classes, sc \in Scopes}

InjectMenu == {PropertyHandler("A", "b", "B"), PropertyHandler("B", "a", "A")}

InitCycle == InitWith(ParamConfigs)

NextCycle ==
  \/ heap = <<>> /\ \E o \in CycleMenu : CallSet(Root, o, None)
  \/ heap = <<>> /\ \E h \in InjectMenu : CallRegisterHandler(Root, h)
  \/ \E c \in {Root, "c1"}, id \in Classes : CallGet(c, id)
  \/ CallCreateChild(Root, "c1")
  \/ CallReset(Root, "resetValue")

SpecCycle == InitCycle /\ [][NextCycle]_vars

\* id resolves on container c to a record registered by type that caches no
\* instance
ByType(c, id) ==
  /\ Preferred(State, c, id) # "none"
  /\ PreferredRecord(metadataMap, c, id).type = id
  /\ PreferredRecord(metadataMap, c, id).factory = NoFactory
  /\ PreferredRecord(metadataMap, c, id).value = EMPTY_VALUE

\* A(b: B) and B(a: A), both registered by type, as container c resolves them
CtorCycle(c) ==
  /\ Len(paramTypes["A"]) = 1 /\ ParamDep(c, "A", 1) = "B"
  /\ Len(paramTypes["B"]) = 1 /\ ParamDep(c, "B", 1) = "A"
  /\ ByType(c, "A") /\ ByType(c, "B")

\* C3: cycle rejection.  With A registered with a constructor dependency on B
\* and B with one on A, get(A) throws a CircularDependencyError whose
\* resolution path contains A and B.
C3_CycleRejection ==
  [][\A c \in Containers :
       (last'.op = "get" /\ CallGet(c, "A") /\ CtorCycle(c))
       => /\ ~last'.ok
          /\ last'.err = "CircularDependencyError"
          /\ {"A", "B"} \subseteq Range(last'.path)]_vars

\* get(A) has thrown the CircularDependencyError for A(b: B), B(a: A)
C3_Witness ==
  /\ last.op = "get" /\ last.id = "A"
  /\ paramTypes["A"] = <<"B">> /\ paramTypes["B"] = <<"A">>
  /\ last.err = "CircularDependencyError"
  /\ {"A", "B"} \subseteq Range(last.path)

\* A and B without constructor parameters, registered by type in a scope that
\* caches the instance, with the @Inject() properties A.b: B and B.a: A in
\* force on container c
PropertyCycle(c) ==
  /\ paramTypes["A"] = <<>> /\ paramTypes["B"] = <<>>
  /\ InjectMenu \subseteq Range(getAllHandlers(c))
  /\ ByType(c, "A") /\ ByType(c, "B")
  /\ PreferredRecord(metadataMap, c, "A").scope # "transient"
  /\ PreferredRecord(metadataMap, c, "B").scope # "transient"

\* C4: property cycle tolerance.  With A and B depending on each other through
\* property injection only, get(A) returns an A whose property holds the B of
\* the container, and that B holds the A returned.
C4_PropertyCycleTolerance ==
  [][\A c \in Containers :
       (last'.op = "get" /\ CallGet(c, "A") /\ PropertyCycle(c))
       => /\ last'.ok
          /\ heap'[last'.val].props["b"] # 0
          /\ heap'[last'.val].props["b"] = PreferredRecord(metadataMap', c, "B").value
          /\ heap'[heap'[last'.val].props["b"]].props["a"] = last'.val]_vars

(* ------------------------------ disposal ------------------------------ *)
\* registrations of the default container whose values dispose() tears down:
\* class A (its instances have dispose()) by type, with and without an
\* onDestroy hook, B by factory with a hook (its instances have no dispose())
\* and a literal value with dispose() under the id "v"
DisposeMenu ==
  {[o |-> WithOnDestroy(Options(None, "A", NoFactory, None, FALSE), hook), lit |-> None] :
     hook \in BOOLEAN}
  \cup {[o |-> WithOnDestroy(Options("B", None, FnFactory, None, FALSE), TRUE), lit |-> None],
        [o |-> Options("v", None, NoFactory, None, FALSE), lit |-> "Lit"]}

DisposeIds == {"A", "B", "v"}

InitDispose == InitWith({[cls \in Classes |-> <<>>]})

\* the calls made on the container once it is disposed
NextDisposed ==
  \/ CallGet(Root, "A")
  \/ \E e \in DisposeMenu : CallSet(Root, e.o, e.lit)
  \/ CallHas(Root, "A")
  \/ \E st \in {"resetValue", "resetServices"} : CallReset(Root, st)
  \/ CallGetMany(Root, "A")
  \/ CallGetAsync(Root, "A")
  \/ CallRemove(Root, "A")
  \/ CallCreateChild(Root, "c1")
  \/ CallInit(Root, <<>>)
  \/ CallRegisterHandler(Root, PropertyHandler("A", "b", "B"))

\* the services are registered, then resolved, then the container is disposed,
\* any number of times, and used on while no dispose() is pending
NextDispose ==
  \/ last.op \in {"none", "set"} /\ \E e \in DisposeMenu : CallSet(Root, e.o, e.lit)
  \/ tasks = <<>> /\ ~disposed[Root] /\ \E id \in DisposeIds : CallGet(Root, id)
  \/ Len(tasks) < MaxDisposals
       /\ \E out \in [SyncDisposed(Root) -> {"sync", "promise"}] : CallDispose(Root, out)
  \/ \E t \in 1..MaxTasks, i \in 1..MaxInst, o \in {"ok", "fail"} : Resume(t, i, o)
  \/ \E t \in 1..MaxTasks : DisposeComplete(t)
  \/ disposed[Root] /\ tasks = <<>> /\ NextDisposed

SpecDispose == InitDispose /\ [][NextDispose]_vars

\* a call of get, set, has, reset, getMany, getAsync, remove, createChild or
\* init on container c
GuardedCall(c) ==
  \/ last'.op = "get" /\ \E id \in DisposeIds : CallGet(c, id)
  \/ last'.op = "set" /\ \E e \in DisposeMenu : CallSet(c, e.o, e.lit)
  \/ last'.op = "has" /\ \E id \in DisposeIds : CallHas(c, id)
  \/ last'.op = "reset" /\ \E st \in {"resetValue", "resetServices"} : CallReset(c, st)
  \/ last'.op = "getMany" /\ \E id \in DisposeIds : CallGetMany(c, id)
  \/ last'.op = "getAsync" /\ \E id \in DisposeIds : CallGetAsync(c, id)
  \/ last'.op = "remove" /\ \E id \in DisposeIds : CallRemove(c, id)
  \/ last'.op = "createChild" /\ \E child \in Containers : CallCreateChild(c, child)
  \/ last'.op = "init" /\ CallInit(c, <<>>)

\* C5: after dispose() has completed on a container, a call of get, set, has,
\* reset, getMany, getAsync, remove, createChild or init on it fails with the
\* disposed error and changes no state.
C5_UseAfterDispose ==
  [][\A c \in Containers :
       (disposed[c] /\ GuardedCall(c))
       => /\ ~last'.ok /\ ~last'.pending
          /\ last'.err = DisposedError
          /\ UNCHANGED <<containers, parent, options, paramTypes, metadataMap,
                         multiServiceIds, handlers, resolutionStack, disposed, heap,
                         ntok, tasks>>]_vars

\* a call on the disposed container has failed with the disposed error
C5_Witness ==
  /\ disposed[Root]
  /\ last.late
  /\ last.op \in {"get", "set", "has", "reset", "getMany", "getAsync", "remove",
                  "createChild", "init"}
  /\ ~last.ok
  /\ last.err = DisposedError

\* C6: a dispose() called on a container that is disposed already fails with
\* the disposed error.
C6_SecondDisposeFails ==
  (last.op = "dispose" /\ last.late /\ ~last.pending)
  => (~last.ok /\ last.err = DisposedError)

\* C7: registerHandler on a disposed container throws the disposed error and
\* leaves the handler list as it is.
C7_RegisterHandlerAfterDispose ==
  [][\A c \in Containers, h \in InjectMenu :
       (disposed[c] /\ CallRegisterHandler(c, h))
       => /\ ~last'.ok
          /\ last'.err = DisposedError
          /\ handlers' = handlers]_vars

\* C8: disposal error isolation.  A dispose() called on a container in use
\* resolves, whatever the teardown of its services does, and leaves the
\* container disposed with an empty record store.
C8_DisposalErrorIsolation ==
  (last.op = "dispose" /\ ~last.late /\ ~last.pending)
  => (last.ok /\ disposed[last.c] /\ metadataMap[last.c] = <<>>)

\* C9: dispose() tears down every cached value, whether its record has a
\* type, a factory or neither: when dispose() resolves, the onDestroy hook of
\* every record that had one and a cached value has been called, and dispose()
\* of every cached value that has the method.
C9_TeardownOfEveryValue ==
  [][\A t \in 1..MaxTasks :
       DisposeComplete(t)
       => \A e \in tasks[t].snap :
            /\ e.hook => heap[e.val].destroyCalls > e.destroyCalls
            /\ HasDisposeMethod(heap[e.val].cls)
                 => heap[e.val].disposeCalls > e.disposeCalls]_vars

\* C10: disposal ordering.  dispose() of an instance whose record has an
\* onDestroy hook is called neither before dispose() of the container returns
\* its promise nor by a step of the teardown other than the one at which the
\* promise of the hook settles; and a container becomes disposed, its record
\* store cleared, at a step that finds every teardown promise of the call
\* settled.
C10_DisposalOrdering ==
  [][/\ \A c \in Containers :
          (\E out \in [SyncDisposed(c) -> {"sync", "promise"}] : CallDispose(c, out))
          => \A e \in Snapshot(c) :
               (e.recreatable /\ e.hook)
               => heap'[e.val].disposeCalls = heap[e.val].disposeCalls
     /\ \A t \in 1..MaxTasks, i \in 1..MaxInst, o \in {"ok", "fail"} :
          (/\ Resume(t, i, o)
           /\ tasks[t].kind = "dispose"
           /\ \E e \in tasks[t].snap : e.id = tasks[t].items[i].id /\ e.hook
           /\ heap'[tasks[t].items[i].val].disposeCalls
                # heap[tasks[t].items[i].val].disposeCalls)
          => tasks[t].items[i].pc = "hook"
     /\ \A c \in Containers :
          (~disposed[c] /\ disposed'[c])
          => /\ metadataMap'[c] = <<>>
             /\ \E t \in 1..Len(tasks) :
                  /\ tasks[t].kind = "dispose" /\ tasks[t].c = c
                  /\ \A i \in 1..Len(tasks[t].items) : Finished(tasks[t].items[i])
                  /\ \A e \in tasks[t].snap :
                       (e.recreatable /\ e.id \in DOMAIN metadataMap[c])
                       => metadataMap[c][e.id].value = EMPTY_VALUE]_vars

\* dispose() has resolved after the onDestroy hook and then dispose() of one
\* instance were called
C10_Witness ==
  /\ last.op = "dispose" /\ last.ok /\ ~last.pending
  /\ disposed[last.c]
  /\ \E v \in 1..Len(heap) : heap[v].destroyCalls > 0 /\ heap[v].disposeCalls > 0

(* ------------------- lookup across the container hierarchy ------------ *)
\* the options a container is constructed with
OptionsMenu ==
  {[lookupStrategy |-> "allowLookup"], [lookupStrategy |-> "localOnly"],
   [allowSingletonLookup |-> FALSE]}

\* registrations on the default container and on container c1: class A by
\* type, class B by factory, a literal value under the id "v"
LookupMenu ==
  {[c |-> Root, o |-> Options(None, "A", NoFactory, sc, FALSE), lit |-> None] :
     sc \in {"singleton", "container"}}
  \cup {[c |-> Root, o |-> Options("v", None, NoFactory, sc, FALSE), lit |-> "Lit"] :
          sc \in {"singleton", "container"}}
  \cup {[c |-> "c1", o |-> Options(None, "A", NoFactory, None, FALSE), lit |-> None],
        [c |-> "c1", o |-> Options("B", None, FnFactory, None, FALSE), lit |-> None]}

LookupIds == {"A", "B", "v"}

InitLookup == InitWith({[cls \in Classes |-> <<>>]})

\* the containers are constructed and the services registered, then the
\* services are resolved: c1 has no parent given, c2 is a child of c1
NextLookup ==
  \/ last.op \in {"none", "new", "createChild", "set"}
       /\ \E e \in LookupMenu : CallSet(e.c, e.o, e.lit)
  \/ last.op \in {"none", "new", "set"}
       /\ \E o \in OptionsMenu : CallNewContainer("c1", None, o)
  \/ last.op \in {"none", "new", "set"}
       /\ \E o \in OptionsMenu : CallNewContainer("c2", "c1", o)
  \/ last.op \in {"none", "new", "set"} /\ CallCreateChild("c1", "c2")
  \/ \E c \in {"c1", "c2"}, id \in LookupIds : CallGet(c, id)
  \/ tasks = <<>> /\ \E c \in {"c1", "c2"}, id \in LookupIds : CallGetAsync(c, id)
  \/ \E t \in 1..MaxTasks, o \in {"ok", "fail"} : Resume(t, 1, o)

SpecLookup == InitLookup /\ [][NextLookup]_vars

\* the containers above c: its parent, the parent of its parent, ...
RECURSIVE Above(_, _)
Above(c, seen) ==
  IF ParentOf(c) = None \/ ParentOf(c) \in seen THEN {}
  ELSE {ParentOf(c)} \cup Above(ParentOf(c), seen \cup {ParentOf(c)})

Ancestors(c) == Above(c, {c})

\* C11: a container configured localOnly that has no local registration of id
\* fails get(id) with ServiceNotFoundError and rejects getAsync(id) with it,
\* whatever its parent and the default container have registered.
C11_LocalOnlyIsolation ==
  [][\A c \in Containers, id \in LookupIds :
       (options[c].lookupStrategy = "localOnly" /\ id \notin DOMAIN metadataMap[c])
       => /\ (last'.op = "get" /\ CallGet(c, id))
               => (~last'.ok /\ last'.err = "ServiceNotFoundError")
          /\ (last'.op = "getAsync" /\ CallGetAsync(c, id))
               => (~last'.ok /\ ~last'.pending /\ last'.err = "ServiceNotFoundError")]_vars

\* a localOnly container has failed to resolve an id its parent has registered
C11_Witness ==
  /\ last.op \in {"get", "getAsync"} /\ ~last.ok
  /\ last.err = "ServiceNotFoundError"
  /\ options[last.c].lookupStrategy = "localOnly"
  /\ last.id \notin DOMAIN metadataMap[last.c]
  /\ last.id \in DOMAIN metadataMap[ParentOf(last.c)]

\* C12: a container configured allowLookup (the default options) that has no
\* local record of id resolves get(id) when one of the containers above it, its
\* parent or the default container, has id registered by type, by factory or
\* as a literal value.
C12_AllowLookupFallsThrough ==
  [][\A c \in Containers, id \in LookupIds :
       (/\ options[c] = DefaultOptions
        /\ id \notin DOMAIN metadataMap[c]
        /\ \E a \in Ancestors(c) : id \in DOMAIN metadataMap[a]
        /\ last'.op = "get" /\ CallGet(c, id))
       => last'.ok]_vars

\* C13, first and second part: a container with allowSingletonLookup false and
\* lookupStrategy allowLookup does not find the default container's records
\* (get of an id it has no local record of throws ServiceNotFoundError), and
\* get of an id it has a local record of returns the value of that record.
C13_SingletonLookupOff ==
  [][\A c \in Containers, id \in LookupIds :
       (/\ options[c].lookupStrategy = "allowLookup"
        /\ ~options[c].allowSingletonLookup
        /\ last'.op = "get" /\ CallGet(c, id))
       => IF id \in DOMAIN metadataMap[c]
          THEN /\ last'.ok
               /\ metadataMap[c][id].scope # "transient"
                    => last'.val = metadataMap'[c][id].value
               /\ metadataMap'[Root] = metadataMap[Root]
          ELSE ~last'.ok /\ last'.err = "ServiceNotFoundError"]_vars

\* a container with allowSingletonLookup false has resolved a local record
\* of an id the default container holds as a singleton
C13_Witness ==
  /\ last.op = "get" /\ last.ok
  /\ ~options[last.c].allowSingletonLookup
  /\ last.id \in DOMAIN metadataMap[Root]
  /\ metadataMap[Root][last.id].scope = "singleton"
  /\ last.val = metadataMap[last.c][last.id].value

\* C13, as stated: with allowSingletonLookup false and lookupStrategy
\* allowLookup, get does not find a singleton record of the default container,
\* resolves a local record, and still resolves, for an id without local record,
\* a non-singleton definition registered higher in the hierarchy.
C13_SingletonShortcutOnly ==
  [][\A c \in Containers, id \in LookupIds :
       (/\ options[c].lookupStrategy = "allowLookup"
        /\ ~options[c].allowSingletonLookup
        /\ last'.op = "get" /\ CallGet(c, id))
       => IF id \in DOMAIN metadataMap[c] THEN last'.ok
          ELSE IF id \in DOMAIN metadataMap[Root]
                  /\ metadataMap[Root][id].scope = "singleton"
            THEN ~last'.ok /\ last'.err = "ServiceNotFoundError"
          ELSE (\E a \in Ancestors(c) : id \in DOMAIN metadataMap[a]) => last'.ok]_vars

(* --------------------------- handlers and reset ----------------------- *)
\* classes A and B by type and B as a multiple registration under "v" on the
\* default container, @Inject() of B on property b of A registered as a
\* handler on the default container or on its child c1; container c2 is
\* constructed on its own; c1 and c2 come to their records by get
ResetMenu ==
  {[c |-> Root, o |-> Options(None, "A", NoFactory, None, FALSE), lit |-> None],
   [c |-> Root, o |-> Options(None, "B", NoFactory, None, FALSE), lit |-> None],
   [c |-> Root, o |-> [Options("v", "B", NoFactory, None, FALSE) EXCEPT !.multiple = TRUE],
    lit |-> None]}

InitReset == InitWith({[cls \in Classes |-> <<>>]})

\* the id the options o register
OptionsId(o) == IF o.id # None THEN o.id ELSE o.type

\* the containers are constructed, the handlers registered and the multiple
\* registration made before the first value exists; a service is registered
\* where its id is not registered yet
NextReset ==
  \/ \E e \in ResetMenu :
       /\ e.c \in containers
       /\ OptionsId(e.o) \notin DOMAIN metadataMap[e.c]
       /\ e.o.multiple => heap = <<>> /\ ntok = 0
       /\ CallSet(e.c, e.o, e.lit)
  \/ heap = <<>>
       /\ \E c \in {Root, "c1"} : CallRegisterHandler(c, PropertyHandler("A", "b", "B"))
  \/ \E c \in Containers : CallGet(c, "A")
  \/ \E c \in {Root, "c1"}, st \in {"resetValue", "resetServices"} : CallReset(c, st)
  \/ heap = <<>> /\ CallCreateChild(Root, "c1")
  \/ heap = <<>> /\ CallNewContainer("c2", None, [lookupStrategy |-> "allowLookup"])

SpecReset == InitReset /\ [][NextReset]_vars

\* container x holds a property handler for property p of class cls
HoldsHandler(x, cls, p) ==
  \E k \in 1..Len(handlers[x]) :
    handlers[x][k].propertyName = p /\ HandlerApplies(handlers[x][k], cls)

\* C14: when get on container Y assigns a property of an instance, a handler
\* for that property of the instance's class is registered on Y or on a
\* container above Y; a handler registered on any other container X is never
\* applied by a resolution on Y.
C14_HandlerIsolation ==
  [][\A c \in Containers :
       (last'.op = "get" /\ last'.c = c /\ CallGet(c, "A"))
       => \A v \in 1..Len(heap') : \A p \in Props :
            (IF v <= Len(heap) THEN heap'[v].props[p] # heap[v].props[p]
             ELSE heap'[v].props[p] # 0)
            => \E x \in {c} \cup Ancestors(c) : HoldsHandler(x, heap'[v].cls, p)]_vars

\* get on a container has constructed an instance of A and left its property b
\* unassigned while a container that is neither that one nor above it holds a
\* handler for the property, and B is registered
C14_Witness ==
  /\ last.op = "get" /\ last.ok /\ last.id = "A"
  /\ heap[last.val].props["b"] = 0
  /\ "A" \in DOMAIN metadataMap[last.c]
  /\ metadataMap[last.c]["A"].value = last.val
  /\ "B" \in DOMAIN metadataMap[Root]
  /\ \E x \in containers \ ({last.c} \cup Ancestors(last.c)) : HoldsHandler(x, "A", "b")

\* C15: reset({strategy: resetServices}) leaves the container with an empty
\* handler list, an empty record store and an empty multi-registration map, and
\* a get on a container whose handler list and whose ancestors' handler lists
\* are empty constructs instances no property of which is assigned: a service
\* registered again and resolved after the reset receives no injection of a
\* handler registered before it.
C15_ResetServicesClears ==
  [][\A c \in Containers :
       /\ (/\ ~disposed[c]
           /\ last'.op = "reset" /\ last'.c = c /\ last'.id = "resetServices"
           /\ CallReset(c, "resetServices"))
          => /\ handlers'[c] = <<>>
             /\ metadataMap'[c] = <<>>
             /\ multiServiceIds'[c] = <<>>
       /\ (/\ handlers[c] = <<>>
           /\ \A x \in Ancestors(c) : handlers[x] = <<>>
           /\ last'.op = "get" /\ last'.c = c
           /\ CallGet(c, "A"))
          => \A v \in (Len(heap) + 1)..Len(heap') : \A p \in Props : heap'[v].props[p] = 0]_vars

\* with the default container alone: an instance of A that had B injected was
\* disposed of by a reset, the handler list is empty, A was registered again
\* and the get that followed constructed an instance without the injection
C15_Witness ==
  /\ containers = {Root}
  /\ last.op = "get" /\ last.ok /\ last.c = Root /\ last.id = "A"
  /\ handlers[Root] = <<>>
  /\ heap[last.val].props["b"] = 0
  /\ \E w \in 1..Len(heap) :
       /\ w < last.val
       /\ heap[w].cls = "A"
       /\ heap[w].props["b"] # 0
       /\ heap[w].disposeCalls > 0

\* the instances container x caches in its records
Cached(x) == {metadataMap[x][id].value : id \in DOMAIN metadataMap[x]} \ {EMPTY_VALUE}

\* C16: reset with either strategy on container C leaves the handler list, the
\* record store, the multi-registration map and the cached instances of every
\* other container as they were, those of C's parent and of the default
\* container included.
C16_ResetFrame ==
  [][\A c \in Containers, st \in {"resetValue", "resetServices"} :
       (last'.op = "reset" /\ last'.c = c /\ last'.id = st /\ CallReset(c, st))
       => \A x \in Containers \ {c} :
            /\ handlers'[x] = handlers[x]
            /\ metadataMap'[x] = metadataMap[x]
            /\ multiServiceIds'[x] = multiServiceIds[x]
            /\ \A v \in Cached(x) : heap'[v] = heap[v]]_vars

\* a child was reset while its parent, the default container, holds a handler
\* and a cached instance, or the default container was reset while its child
\* holds them
C16_Witness ==
  /\ last.op = "reset" /\ last.ok
  /\ \E x \in containers \ {last.c} :
       /\ x = ParentOf(last.c) \/ last.c = ParentOf(x)
       /\ handlers[x] # <<>>
       /\ Cached(x) # {}

\* C18: reset({strategy: resetValue}) leaves every handler list unchanged, and
\* a get of A that follows it on a container holding the @Inject handler of
\* property b, when it succeeds, returns an instance with the property
\* assigned.
C18_ResetValueKeepsHandlers ==
  [][\A c \in Containers :
       /\ (last'.op = "reset" /\ last'.c = c /\ last'.id = "resetValue"
           /\ CallReset(c, "resetValue"))
          => handlers' = handlers
       /\ (/\ last.op = "reset" /\ last.c = c /\ last.id = "resetValue" /\ last.ok
           /\ HoldsHandler(c, "A", "b")
           /\ last'.op = "get" /\ last'.c = c /\ last'.ok
           /\ CallGet(c, "A"))
          => heap'[last'.val].props["b"] # 0]_vars

\* with the default container alone: an instance of A that had B injected was
\* disposed of by a reset that kept the handler, and the get that followed
\* constructed an instance that has B injected too
C18_Witness ==
  /\ containers = {Root}
  /\ last.op = "get" /\ last.ok /\ last.c = Root /\ last.id = "A"
  /\ handlers[Root] # <<>>
  /\ heap[last.val].props["b"] # 0
  /\ \E w \in 1..Len(heap) :
       /\ w < last.val
       /\ heap[w].cls = "A"
       /\ heap[w].props["b"] # 0
       /\ heap[w].disposeCalls > 0

(* --------------------- teardown by reset and by remove ---------------- *)
\* class A (its instances have dispose()) by type on the default container and
\* on its child c1, class B (no dispose()) by factory and a literal value with
\* dispose() under the id "v" on the default container
TeardownMenu ==
  {[c |-> c, o |-> Options(None, "A", NoFactory, None, FALSE), lit |-> None] : c \in {Root, "c1"}}
  \cup {[c |-> Root, o |-> Options(None, "B", FnFactory, None, FALSE), lit |-> None],
        [c |-> Root, o |-> Options("v", None, NoFactory, None, FALSE), lit |-> "Lit"]}

TeardownIds == {"A", "B", "v"}

\* a service is registered where its id is not registered yet
NextTeardown ==
  \/ \E e \in TeardownMenu :
       /\ e.c \in containers
       /\ OptionsId(e.o) \notin DOMAIN metadataMap[e.c]
       /\ CallSet(e.c, e.o, e.lit)
  \/ \E id \in TeardownIds : CallGet(Root, id)
  \/ CallGet("c1", "A")
  \/ \E c \in {Root, "c1"} : CallReset(c, "resetValue")
  \/ \E id \in TeardownIds : CallRemove(Root, id)
  \/ CallRemove("c1", "A")
  \/ heap = <<>> /\ CallCreateChild(Root, "c1")

SpecTeardown == InitReset /\ [][NextTeardown]_vars

\* a record without the value it caches
Definition(m) == [m EXCEPT !.value = EMPTY_VALUE]

\* C17: reset({strategy: resetValue}) keeps every record definition: the ids
\* registered and what each is registered as are the same afterwards, and the
\* next get(id) for a record of the container defined by type or factory that
\* the container resolves id from constructs and returns a new instance.
C17_ResetValueKeepsDefinitions ==
  [][\A c \in Containers :
       /\ (/\ ~disposed[c]
           /\ last'.op = "reset" /\ last'.c = c /\ last'.id = "resetValue"
           /\ CallReset(c, "resetValue"))
          => /\ DOMAIN metadataMap'[c] = DOMAIN metadataMap[c]
             /\ \A id \in DOMAIN metadataMap[c] :
                  Definition(metadataMap'[c][id]) = Definition(metadataMap[c][id])
             /\ multiServiceIds' = multiServiceIds
       /\ \A id \in TeardownIds :
            (/\ last.op = "reset" /\ last.c = c /\ last.id = "resetValue" /\ last.ok
             /\ id \in DOMAIN metadataMap[c]
             /\ shouldResetValue(metadataMap[c][id])
             /\ Preferred(State, c, id) = "local"
             /\ last'.op = "get" /\ last'.c = c
             /\ CallGet(c, id))
            => /\ last'.ok
               /\ last'.val > Len(heap)
               /\ last'.val = Len(heap')]_vars

\* get has returned a newly constructed instance of A, cached in the record,
\* while an earlier instance of A has been disposed of
C17_Witness ==
  /\ last.op = "get" /\ last.ok /\ last.id = "A"
  /\ "A" \in DOMAIN metadataMap[last.c]
  /\ metadataMap[last.c]["A"].value = last.val
  /\ last.val = Len(heap)
  /\ heap[last.val].disposeCalls = 0
  /\ \E w \in 1..Len(heap) :
       w < last.val /\ heap[w].cls = "A" /\ heap[w].disposeCalls = 1

\* the instance the record of id caches has a dispose method
CachesDisposable(c, id) ==
  /\ metadataMap[c][id].value # EMPTY_VALUE
  /\ HasDisposeMethod(heap[metadataMap[c][id].value].cls)

\* C19, for the records the container can re-create: reset({strategy:
\* resetValue}) and remove(id) call dispose() exactly once on the cached
\* instance of each affected record defined by type or factory when the
\* instance has a dispose method, and afterwards the record's value is EMPTY
\* (reset) or the record is absent (remove); a record that holds only a literal
\* value keeps it under reset and is dropped by remove, in both cases without
\* dispose() being called on the value.
C19_TeardownOfRecreatable ==
  [][\A c \in Containers :
       /\ (/\ ~disposed[c]
           /\ last'.op = "reset" /\ last'.c = c /\ last'.id = "resetValue"
           /\ CallReset(c, "resetValue"))
          => \A id \in DOMAIN metadataMap[c] :
               IF shouldResetValue(metadataMap[c][id])
               THEN /\ CachesDisposable(c, id) => heap'[metadataMap[c][id].value].disposeCalls
                         = heap[metadataMap[c][id].value].disposeCalls + 1
                    /\ metadataMap'[c][id].value = EMPTY_VALUE
               ELSE /\ metadataMap'[c][id] = metadataMap[c][id]
                    /\ heap'[metadataMap[c][id].value] = heap[metadataMap[c][id].value]
       /\ \A id \in TeardownIds :
            (/\ ~disposed[c]
             /\ id \in DOMAIN metadataMap[c]
             /\ last'.op = "remove" /\ last'.c = c
             /\ CallRemove(c, id))
            => /\ id \notin DOMAIN metadataMap'[c]
               /\ IF shouldResetValue(metadataMap[c][id])
                  THEN CachesDisposable(c, id) => heap'[metadataMap[c][id].value].disposeCalls
                         = heap[metadataMap[c][id].value].disposeCalls + 1
                  ELSE heap' = heap]_vars

\* reset or remove has just called dispose() on an instance of A: the instance
\* is cached nowhere any more
C19_Witness ==
  /\ last.op \in {"reset", "remove"} /\ last.ok
  /\ \E w \in 1..Len(heap) :
       /\ heap[w].cls = "A" /\ heap[w].disposeCalls = 1
       /\ w \notin Cached(Root) \cup Cached("c1")
       /\ \A u \in 1..Len(heap) : u > w => heap[u].cls # "A"

\* C19, as stated: reset({strategy: resetValue}) and remove(id) call dispose()
\* exactly once on the cached instance of each affected record when the
\* instance has a dispose method, and afterwards the record's value is EMPTY
\* (reset) or the record is absent (remove).
C19_TeardownOfEveryRecord ==
  [][\A c \in Containers :
       /\ (/\ ~disposed[c]
           /\ last'.op = "reset" /\ last'.c = c /\ last'.id = "resetValue"
           /\ CallReset(c, "resetValue"))
          => \A id \in DOMAIN metadataMap[c] :
               /\ CachesDisposable(c, id) => heap'[metadataMap[c][id].value].disposeCalls
                         = heap[metadataMap[c][id].value].disposeCalls + 1
               /\ metadataMap'[c][id].value = EMPTY_VALUE
       /\ \A id \in TeardownIds :
            (/\ ~disposed[c]
             /\ id \in DOMAIN metadataMap[c]
             /\ last'.op = "remove" /\ last'.c = c
             /\ CallRemove(c, id))
            => /\ id \notin DOMAIN metadataMap'[c]
               /\ CachesDisposable(c, id) => heap'[metadataMap[c][id].value].disposeCalls
                         = heap[metadataMap[c][id].value].disposeCalls + 1]_vars

(* ------------------------- multiple registrations --------------------- *)
\* literal values registered under the id "v" with multiple: true: objects of
\* class Lit on the default container, objects of class Obj on its child c1
ManyMenu ==
  {[c |-> Root, o |-> [Options("v", None, NoFactory, None, FALSE) EXCEPT !.multiple = TRUE],
    lit |-> "Lit"],
   [c |-> "c1", o |-> [Options("v", None, NoFactory, None, FALSE) EXCEPT !.multiple = TRUE],
    lit |-> "Obj"]}

NextMany ==
  \/ \E e \in ManyMenu : e.c \in containers /\ CallSet(e.c, e.o, e.lit)
  \/ \E c \in {Root, "c1"} : CallGetMany(c, "v")
  \/ \E c \in {Root, "c1"} : CallGet(c, "v")
  \/ \E c \in {Root, "c1"} : CallHas(c, "v")
  \/ \E c \in {Root, "c1"} : CallRemove(c, "v")
  \/ \E c \in {Root, "c1"} : CallReset(c, "resetValue")
  \/ CallCreateChild(Root, "c1")

SpecMany == InitReset /\ [][NextMany]_vars

\* C20: after values were registered under one identifier with multiple: true
\* on a container, getMany(id) on it returns exactly those values in the order
\* of their registration, on every call. The values are objects the caller
\* made one after the other, so the order of registration is that of their
\* references.
C20_GetManyOrder ==
  [][\A e \in ManyMenu :
       (/\ "v" \in DOMAIN multiServiceIds[e.c]
        /\ last'.op = "getMany" /\ last'.c = e.c
        /\ CallGetMany(e.c, "v"))
       => LET registered == {v \in 1..Len(heap) : heap[v].cls = e.lit}
          IN /\ last'.ok
             /\ Len(last'.path) = Cardinality(registered)
             /\ Range(last'.path) = registered
             /\ \A i, j \in 1..Len(last'.path) : i < j => last'.path[i] < last'.path[j]]_vars

\* getMany has returned three values
C20_Witness ==
  /\ last.op = "getMany" /\ last.ok
  /\ Len(last.path) = 3

InitMenu ==
  {Options(None, "A", NoFactory, None, TRUE),
   Options(None, "A", NoFactory, "transient", TRUE),
   [Options(None, "A", NoFactory, None, TRUE)
      EXCEPT !.hasAsync = TRUE, !.async = TRUE, !.hasLifecycle = TRUE, !.onInit = TRUE],
   [Options("B", None, FnFactory, None, FALSE)
      EXCEPT !.hasAsync = TRUE, !.async = TRUE, !.hasLifecycle = TRUE, !.onInit = TRUE],
   Options("B", None, FnFactory, None, FALSE)}

NextInit ==
  \/ heap = <<>> /\ last.op \in {"none", "set", "createChild"}
       /\ \E o \in InitMenu : CallSet(Root, o, None)
  \/ heap = <<>> /\ last.op \in {"none", "set", "createChild"}
       /\ CallSet("c1", Options(None, "A", NoFactory, "singleton", FALSE), None)
  \/ last.op = "none" /\ CallCreateChild(Root, "c1")
  \/ /\ tasks = <<>>
     /\ \A v \in 1..Len(heap) : heap[v].initCalls < MaxHookCalls
     /\ \E order \in Orders(InitIds(Root)) : CallInit(Root, order)
  \/ last.op \in {"set", "get"} /\ \E id \in Classes : CallGet(Root, id)
  \/ last.op \in {"set", "get"} /\ CallGet("c1", "A")
  \/ \E id \in Classes : CallGetAsync(Root, id)
  \/ \E t \in 1..MaxTasks, i \in 1..2, o \in {"ok", "fail"} : Resume(t, i, o)

SpecInit == InitCycle /\ [][NextInit]_vars

\* C22: in every reachable state every transient-scoped record defined by type
\* or factory has the value EMPTY: no set, get, getAsync, getMany or init ever
\* stores an instance on a transient record of any container.
C22_TransientNeverCached ==
  \A c \in Containers : \A id \in DOMAIN metadataMap[c] :
    (metadataMap[c][id].scope = "transient" /\ shouldResetValue(metadataMap[c][id]))
    => metadataMap[c][id].value = EMPTY_VALUE

\* C23: in every reachable state no container other than the default one holds
\* a singleton-scoped record: set with scope singleton on any container stores
\* the record on the default container only.
C23_SingletonsOnRootOnly ==
  \A c \in Containers \ {Root} : \A id \in DOMAIN metadataMap[c] :
    metadataMap[c][id].scope # "singleton"

\* set of a singleton on the child has stored the record on the default
\* container and none on the child
C23_Witness ==
  /\ last.op = "set" /\ last.ok /\ last.c = "c1" /\ last.id = "A"
  /\ "A" \in DOMAIN metadataMap[Root]
  /\ metadataMap[Root]["A"].scope = "singleton"
  /\ "A" \notin DOMAIN metadataMap["c1"]

\* C24: a set that returns has constructed an instance before returning if and
\* only if the record it leaves is eager, not transient and not async; in that
\* case the constructor or factory of id has run exactly once and the instance
\* is the record's value, and the get(id) that follows returns that instance
\* without constructing anything.
C24_EagerConstruction ==
  [][\A id \in Classes :
       /\ (/\ last'.op = "set" /\ last'.id = id /\ last'.ok
           /\ id \in DOMAIN metadataMap'[Root])
          => IF /\ metadataMap'[Root][id].eager
                /\ metadataMap'[Root][id].scope # "transient"
                /\ ~metadataMap'[Root][id].async
             THEN /\ Cardinality({v \in (Len(heap) + 1)..Len(heap') : heap'[v].cls = id}) = 1
                  /\ metadataMap'[Root][id].value > Len(heap)
                  /\ heap'[metadataMap'[Root][id].value].cls = id
             ELSE /\ heap' = heap
                  /\ metadataMap'[Root][id].value = EMPTY_VALUE
       /\ (/\ last.op = "set" /\ last.id = id /\ last.ok
           /\ id \in DOMAIN metadataMap[Root]
           /\ metadataMap[Root][id].eager
           /\ metadataMap[Root][id].scope # "transient"
           /\ ~metadataMap[Root][id].async
           /\ last'.op = "get" /\ last'.c = Root
           /\ CallGet(Root, id))
          => /\ last'.ok
             /\ last'.val = metadataMap[Root][id].value
             /\ heap' = heap]_vars

C26_InitConstructsFlagged ==
  [][(\/ last'.op = "init" /\ \E order \in Orders(InitIds(Root)) : CallInit(Root, order)
      \/ \E t \in 1..Len(tasks), i \in 1..2, o \in {"ok", "fail"} :
           tasks[t].kind = "init" /\ Resume(t, i, o))
     => /\ (last'.op = "init" /\ last'.ok /\ ~last'.pending)
           => \A id \in InitIds(Root) :
                /\ metadataMap'[Root][id].value # EMPTY_VALUE
                /\ (metadataMap'[Root][id].async /\ metadataMap'[Root][id].onInit)
                   => /\ heap'[metadataMap'[Root][id].value].initCalls >= 1
                      /\ \A t \in 1..Len(tasks') : \A i \in 1..Len(tasks'[t].items) :
                           ~(/\ tasks'[t].items[i].pc = "onInit"
                             /\ tasks'[t].items[i].val = metadataMap'[Root][id].value)
        /\ \A id \in DOMAIN metadataMap[Root] \ InitIds(Root) :
             \/ metadataMap'[Root][id].value = metadataMap[Root][id].value
             \/ \E j \in InitIds(Root) :
                  /\ metadataMap[Root][j].type # None
                  /\ metadataMap[Root][j].factory.kind = "none"
                  /\ id \in Range(paramTypes[metadataMap[Root][j].type])]_vars

\* C27: when a promise of getAsync(id) resolves for a record with an onInit
\* hook, the hook has been called on the instance it resolves to and no call
\* of the hook on that instance is still pending.
C27_GetAsyncAfterOnInit ==
  (/\ last.op = "getAsync" /\ last.ok /\ ~last.pending
   /\ last.id \in DOMAIN metadataMap[last.c]
   /\ metadataMap[last.c][last.id].onInit)
  => /\ heap[last.val].initCalls >= 1
     /\ \A t \in 1..Len(tasks) : \A i \in 1..Len(tasks[t].items) :
          ~(tasks[t].items[i].pc = "onInit" /\ tasks[t].items[i].val = last.val)

(* ------------------ inherited and inherited-from handlers -------------- *)
\* the base class A, the class B and the class Sub extends A, registered on
\* the default container: A and B by type, and under the identifier "v" either
\* Sub by type or the factory [A, method].  Sub declares no constructor, so
\* its design:paramtypes are those of A: none, or (b: B).  @Inject() on the
\* property b of A is registered on the default container before the first
\* resolution; the default container and its child c1 resolve.
NextInject ==
  \/ \E o \in {Options(None, "A", NoFactory, None, FALSE),
               Options(None, "B", NoFactory, None, FALSE),
               Options("v", "Sub", NoFactory, None, FALSE),
               Options("v", None, ArrayFactory("A"), None, FALSE)} :
       OptionsId(o) \notin DOMAIN metadataMap[Root] /\ CallSet(Root, o, None)
  \/ heap = <<>> /\ CallRegisterHandler(Root, PropertyHandler("A", "b", "B"))
  \/ heap = <<>> /\ CallCreateChild(Root, "c1")
  \/ \E c \in {Root, "c1"}, id \in {"A", "B", "v"} : CallGet(c, id)

SpecInject ==
  /\ InitWith({[cls \in {"A", "B", "Sub"} |-> <<>>],
               [cls \in {"A", "B", "Sub"} |-> IF cls = "B" THEN <<>> ELSE <<"B">>]})
  /\ [][NextInject]_vars

\* C28: when a handler for the property b of the base class A is among the
\* handlers of a container, a get on that container that constructs the
\* instance of the derived class Sub and returns it yields an instance of Sub
\* whose property b holds an instance of B, the dependency of the handler.
C28_InheritedProperty ==
  [][\A c \in {Root, "c1"} :
       (/\ last'.op = "get" /\ last'.c = c /\ last'.id = "v" /\ last'.ok
        /\ "v" \in DOMAIN metadataMap'[c]
        /\ metadataMap'[c]["v"].type = "Sub"
        /\ getAllHandlers(c) # <<>>
        /\ last'.val > Len(heap)
        /\ CallGet(c, "v"))
       => /\ heap'[last'.val].cls = "Sub"
          /\ heap'[last'.val].props["b"] # 0
          /\ heap'[heap'[last'.val].props["b"]].cls = "B"]_vars

\* the default container has resolved Sub with the handler of A.b registered
C28_Witness ==
  /\ last.op = "get" /\ last.c = Root /\ last.id = "v" /\ last.ok
  /\ handlers[Root] # <<>>
  /\ heap[last.val].cls = "Sub"
  /\ heap[last.val].props["b"] # 0

\* C29: a get on the child c1 that constructs an instance of A or Sub and
\* returns it while the handler of A.b is registered on the default container
\* has set the property b to the instance the record of B on c1 holds, and not
\* to the instance the record of B on the default container holds.
C29_RequestingContainer ==
  [][\A id \in {"A", "v"} :
       (/\ last'.op = "get" /\ last'.c = "c1" /\ last'.id = id /\ last'.ok
        /\ handlers[Root] # <<>>
        /\ id \in DOMAIN metadataMap'["c1"]
        /\ metadataMap'["c1"][id].type \in {"A", "Sub"}
        /\ last'.val > Len(heap)
        /\ CallGet("c1", id))
       => /\ "B" \in DOMAIN metadataMap'["c1"]
          /\ heap'[last'.val].props["b"] = metadataMap'["c1"]["B"].value
          /\ heap'[last'.val].props["b"] # metadataMap'[Root]["B"].value]_vars

\* the child has resolved A after the default container had cached its own
\* instance of B
C29_Witness ==
  /\ last.op = "get" /\ last.c = "c1" /\ last.id = "A" /\ last.ok
  /\ handlers[Root] # <<>>
  /\ "B" \in DOMAIN metadataMap[Root]
  /\ metadataMap[Root]["B"].value # EMPTY_VALUE
  /\ heap[last.val].props["b"] # 0

C31_OneInstanceInFlight ==
  \A t1, t2 \in 1..Len(tasks) :
    (/\ t1 # t2
     /\ tasks[t1].kind = "getAsync" /\ tasks[t2].kind = "getAsync"
     /\ tasks[t1].items[1].ref.stored
     /\ tasks[t1].items[1].ref = tasks[t2].items[1].ref
     /\ tasks[t1].items[1].ref.id \in DOMAIN metadataMap[tasks[t1].items[1].ref.c]
     /\ metadataMap[tasks[t1].items[1].ref.c][tasks[t1].items[1].ref.id].scope # "transient")
    => tasks[t1].items[1].val = tasks[t2].items[1].val

\* C32: a get that throws leaves the record store of every container as it
\* was before the call: no record is added and no record gains or changes a
\* value.
C32_FailedGetLeavesStore ==
  [][\A c \in {Root, "c1"}, id \in {"A", "B", "v"} :
       (last'.op = "get" /\ last'.c = c /\ last'.id = id /\ ~last'.ok /\ CallGet(c, id))
       => metadataMap' = metadataMap]_vars

\* C33: a get of A on a container, A being a container-scoped record of the
\* default container, constructs at most one instance of A, and none when the
\* container's record of A holds an instance already.
C33_ConstructedOncePerContainer ==
  [][\A c \in {Root, "c1"} :
       (/\ last'.op = "get" /\ last'.c = c /\ last'.id = "A"
        /\ "A" \in DOMAIN metadataMap[Root]
        /\ metadataMap[Root]["A"].scope = "container"
        /\ CallGet(c, "A"))
       => Cardinality({v \in (Len(heap) + 1)..Len(heap') : heap'[v].cls = "A"})
            <= (IF "A" \in DOMAIN metadataMap[c] /\ metadataMap[c]["A"].value # EMPTY_VALUE
                THEN 0 ELSE 1)]_vars

(* --------------------------- resolution stack -------------------------- *)
\* C34: whenever no call is running the resolution stack of every container
\* is empty, after a get that returned and after one that threw, and the
\* stack a CircularDependencyError reports holds no identifier twice.
C34_StackEmptyBetweenCalls ==
  /\ \A c \in Containers : resolutionStack[c] = <<>>
  /\ \A i, j \in 1..Len(last.path) : i # j => last.path[i] # last.path[j]

\* a get has thrown a CircularDependencyError from inside the resolution of
\* two records, and the stack is empty again
C34_Witness ==
  /\ last.op = "get" /\ ~last.ok /\ last.err = "CircularDependencyError"
  /\ Len(last.path) = 2
  /\ resolutionStack[last.c] = <<>>

C39_GetTerminates ==
  \A c \in containers, id \in Classes : get(State, c, id, MaxDepth).err # "RangeError"

(* ------------------ calls made while a call is suspended --------------- *)
\* SpecDispose with, in addition, gets of A and B on the default container
\* while a dispose() of it awaits its teardown promises; and a child c1 that
\* registers A and B with async factories that call getAsync for each other
\* and resolves them with getAsync
SpecRace ==
  /\ InitDispose
  /\ [][\/ NextDispose
        \/ /\ ~disposed[Root]
           /\ \E t \in 1..Len(tasks) : tasks[t].kind = "dispose" /\ ~tasks[t].late
           /\ \E id \in Classes : CallGet(Root, id)
        \/ last.op = "none" /\ CallCreateChild(Root, "c1")
        \/ \E o \in {Options("A", None, [kind |-> "getAsync", cls |-> "B"], None, FALSE),
                     Options("B", None, [kind |-> "getAsync", cls |-> "A"], None, FALSE)} :
             /\ "c1" \in containers
             /\ OptionsId(o) \notin DOMAIN metadataMap["c1"]
             /\ CallSet("c1", o, None)
        \/ /\ "c1" \in containers
           /\ {"A", "B"} \subseteq DOMAIN metadataMap["c1"]
           /\ \E id \in Classes : CallGetAsync("c1", id)]_vars

SpecChain ==
  /\ InitWith({[cls \in {"A", "B", "Sub"} |-> <<>>]})
  /\ [][\/ \E o \in {Options(None, "A", NoFactory, None, FALSE),
                     Options(None, "B", NoFactory, None, FALSE),
                     Options("v", None, FnFactory, None, FALSE)} :
             OptionsId(o) \notin DOMAIN metadataMap[Root] /\ CallSet(Root, o, None)
        \/ /\ heap = <<>>
           /\ \E c \in {Root, "c1"}, dep \in {"B", "v"} :
                CallRegisterHandler(c, PropertyHandler("A", "b", dep))
        \/ heap = <<>> /\ \E child \in {"c1", "d2"} : CallCreateChild(Root, child)
        \/ heap = <<>> /\ \E p \in {"c1", "d2"} : CallCreateChild(p, "c2")
        \/ \E c \in {Root, "c1"} : CallGet(c, "A")]_vars

\* C35: the handler list of a container is its own handlers followed by those
\* of its parent, of the parent of its parent, and so on up the chain: every
\* container on the chain contributes once and none is skipped, also when two
\* containers on the chain have equal id strings.
C35_EveryAncestorOnce ==
  \A c \in containers :
    LET P(x) == IF x = None THEN None ELSE ParentOf(x)
        H(x) == IF x = None THEN <<>> ELSE handlers[x]
    IN getAllHandlers(c) = handlers[c] \o H(P(c)) \o H(P(P(c))) \o H(P(P(P(c))))

\* C36: a get on the child c1 that constructs A and returns it, while c1 has
\* one handler for the property b of A and the default container has handlers
\* for it too, has set b to what the handler of c1 resolves.
C36_MostLocalWins ==
  [][(/\ last'.op = "get" /\ last'.c = "c1" /\ last'.id = "A" /\ last'.ok
      /\ Len(handlers["c1"]) = 1
      /\ handlers[Root] # <<>>
      /\ last'.val > Len(heap)
      /\ CallGet("c1", "A"))
     => /\ heap'[last'.val].props["b"] # 0
        /\ heap'[heap'[last'.val].props["b"]].cls
             = FactoryProduct(handlers["c1"][1].dep)]_vars


\* C40: a getAsync on the child c1 for A or B, registered there with async
\* factories that call getAsync for each other, is rejected with the
\* circular-dependency error.
C40_AsyncCycleDetected ==
  (/\ last.op = "getAsync" /\ last.c = "c1" /\ ~last.pending
   /\ {"A", "B"} \subseteq DOMAIN metadataMap["c1"]
   /\ metadataMap["c1"]["A"].factory = [kind |-> "getAsync", cls |-> "B"]
   /\ metadataMap["c1"]["B"].factory = [kind |-> "getAsync", cls |-> "A"])
  => ~last.ok /\ last.err = "CircularDependencyError"

====
